---- MODULE Spec2Model ----
(***************************************************************************)
(* A model of the task planner (createTasksForProjectToRun), of the import *)
(* scanner (preProcessFile / buildExplicitTypeScriptDependencies) and of   *)
(* the tsc plugin of the workspace.  Every subsystem has its own           *)
(* specification over the shared variables; the variables of the other     *)
(* subsystems stay idle.                                                   *)
(***************************************************************************)
EXTENDS Naturals, Integers, Sequences, FiniteSets, TLC

VARIABLES
  \* ---- task planner: inputs of main() in run-command.tsx
  projectGraph,        \* [nodes, dependencies]
  nxJson,              \* [targetDependencies]: target -> rules, or NoRules
  nxArgs,              \* [target, configuration, withDeps]
  overrides,           \* the caller's overrides object
  projectsToRun,       \* sequence of project names
  initiatingProject,   \* a project name or Null
  \* ---- task planner: results
  pc,                  \* "start" | "planned" | "running" | "exited" | "threw"
  tasks,               \* the list createTasksForProjectToRun returned
  exitCode,            \* the code given to process.exit, or NoExit
  outputError,         \* what output.error was called with
  runnerTasks,         \* the task list handed to tasksRunner
  \* ---- import scanner: the file buildExplicitTypeScriptDependencies is at
  filePath,            \* [base, ext]: the file's path
  sourceText,          \* the file's content, a sequence of lexemes
  importPositions,     \* which lexemes are specifiers of real imports
  lazyRoutes,          \* the loadChildren strings the content declares
  scanner,             \* the one scanner of the preProcessFile instance, and
                       \* the locals of the last call
  scanPc,              \* "read" | "scan" | "post" | "emit" | "done"
  importedFiles,       \* what preProcessFile returned
  explicitDependencies,\* what buildExplicitTypeScriptDependencies has collected
  \* ---- tsc plugin: the module state of the plugin and the cache on disk
  tscCacheFile,        \* [exists, content]: the file tsc.hash
  targetsCache,        \* the cache read when the module is loaded
  calculatedTargets,   \* hash -> targets, filled by createNodes
  createNodesResult,   \* what the last call of createNodes returned
  tscRun,              \* [pc, run, options, lockFile, returned]: the run
  \* ---- tsconfig sync: the generator's tree and the call in progress
  tree,                \* path -> JSON of the files that exist
  sync,                \* [pc, variant, run, plugins, nodes, dependencies, ...]
  \* ---- getRunner: one call with its arguments and what it gave
  runnerCall,          \* [pc, nxArgs, tasksRunnerOptions, result]
  \* ---- TUI summary life cycle: the closure's state and what was printed
  tui,                 \* counters, sets and the events seen so far
  summary,             \* what printSummary printed
  \* ---- dynamic run-many renderer (createOutputRenderer)
  renderer             \* the closure's state, the timer and the promise

plannerVars == <<projectGraph, nxJson, nxArgs, overrides,
                 projectsToRun, initiatingProject, pc, tasks, exitCode,
                 outputError, runnerTasks>>

scanVars == <<filePath, sourceText, importPositions, lazyRoutes, scanner,
              scanPc, importedFiles, explicitDependencies>>

tscVars == <<tscCacheFile, targetsCache, calculatedTargets, createNodesResult,
             tscRun>>

syncVars == <<tree, sync>>

tuiVars == <<tui, summary>>

othersThanPlanner == <<scanVars, tscVars, syncVars, runnerCall, tuiVars, renderer>>
othersThanScan == <<plannerVars, tscVars, syncVars, runnerCall, tuiVars, renderer>>
othersThanTsc == <<plannerVars, scanVars, syncVars, runnerCall, tuiVars, renderer>>
othersThanSync == <<plannerVars, scanVars, tscVars, runnerCall, tuiVars, renderer>>
othersThanRunner == <<plannerVars, scanVars, tscVars, syncVars, tuiVars, renderer>>
othersThanTui == <<plannerVars, scanVars, tscVars, syncVars, runnerCall, renderer>>
othersThanRenderer == <<plannerVars, scanVars, tscVars, syncVars, runnerCall, tuiVars>>

vars == <<plannerVars, scanVars, tscVars, syncVars, runnerCall, tuiVars, renderer>>

-----------------------------------------------------------------------------
(* Generic helpers *)

Range(s) == {s[i] : i \in 1..Len(s)}

Null == "null"
Undefined == "undefined"
NoExit == 0 - 1

\* sequences over S without repetition, of length at most n
RECURSIVE SeqsNoRep(_, _)
SeqsNoRep(S, n) ==
  IF n = 0 \/ S = {} THEN {<<>>}
  ELSE {<<>>} \cup
       UNION {{<<x>> \o t : t \in SeqsNoRep(S \ {x}, n - 1)} : x \in S}

-----------------------------------------------------------------------------
(* Bounds *)

MaxDeps == 2      \* length of a project's dependency list
MaxRules == 2     \* number of rules attached to one target
MaxToRun == 2     \* length of projectsToRun

-----------------------------------------------------------------------------
(* Task planner: data *)

Projects == {"a", "b", "c"}
Targets == {"build", "test"}
Configs == {"prod", "dev"}

DependenciesRule(t) == [target |-> t, projects |-> "dependencies"]
SelfRule(t) == [target |-> t, projects |-> "self"]
Rules == {DependenciesRule(t) : t \in Targets} \cup {SelfRule(t) : t \in Targets}

NoHalt == [kind |-> "none", code |-> NoExit, title |-> "", project |-> "null",
           path |-> <<>>]
EmptyOverrides == <<>>
\* an absent rule list (undefined): dependsOn of a target, nxJson.targetDependencies
NoRules == [defined |-> FALSE, rules |-> <<>>]

\* a string value of an overrides object: literal text and {project.<group>} places
Lit(s) == [k |-> "lit", v |-> s]
Interp(g) == [k |-> "interp", v |-> g]
StringValue(parts) == [type |-> "string", parts |-> parts, n |-> 0]
NumberValue(n) == [type |-> "number", parts |-> <<>>, n |-> n]

\* project.data of a node
ProjectData(p) == projectGraph.nodes[p].data

-----------------------------------------------------------------------------
(* Task planner: helpers of utilities/project-graph-utils and tasks-runner/utils *)

projectHasTarget(project, target) ==
  target \in DOMAIN ProjectData(project).targets

projectHasTargetAndConfiguration(project, target, configuration) ==
  /\ projectHasTarget(project, target)
  /\ configuration \in ProjectData(project).targets[target].configurations

\* the target's own dependsOn, else the workspace rules of the target, else none
getDependencyConfigs(project, target, defaultDependencyConfigs) ==
  IF /\ projectHasTarget(project, target)
     /\ ProjectData(project).targets[target].dependsOn.defined
  THEN ProjectData(project).targets[target].dependsOn.rules
  ELSE IF target \in DOMAIN defaultDependencyConfigs
       THEN defaultDependencyConfigs[target]
       ELSE <<>>

-----------------------------------------------------------------------------
(* Task planner: run-command/utils.ts *)

getId(project, target, configuration) ==
  IF configuration # Undefined /\ configuration # ""
  THEN project \o ":" \o target \o ":" \o configuration
  ELSE project \o ":" \o target

\* what one {project.<group>} place is replaced by
Replacement(group, projectName, projectMetadata) ==
  IF group = "name" THEN projectName
  ELSE IF group = "root" THEN projectMetadata.root
  ELSE Undefined

IsNestedGroup(group) == group \in {"a.b", "data.root"}

RECURSIVE ReplaceAll(_, _, _)
ReplaceAll(parts, projectName, projectMetadata) ==
  IF parts = <<>> THEN ""
  ELSE (IF Head(parts).k = "lit" THEN Head(parts).v
        ELSE Replacement(Head(parts).v, projectName, projectMetadata))
       \o ReplaceAll(Tail(parts), projectName, projectMetadata)

InterpolationThrows(args) ==
  \E name \in DOMAIN args :
    /\ args[name].type = "string"
    /\ \E i \in 1..Len(args[name].parts) :
         /\ args[name].parts[i].k = "interp"
         /\ IsNestedGroup(args[name].parts[i].v)

\* the overrides handed on as they are
keepOverrides(args, projectName, projectMetadata) == args

interpolateOverrides(args, projectName, projectMetadata) ==
  [name \in DOMAIN args |->
     IF args[name].type = "string"
     THEN StringValue(<<Lit(ReplaceAll(args[name].parts, projectName,
                                        projectMetadata))>>)
     ELSE args[name]]

ExitWith(title, project, path) ==
  [kind |-> "exit", code |-> 1, title |-> title, project |-> project,
   path |-> path]
Thrown == [kind |-> "throw", code |-> NoExit, title |-> "Only top-level properties can be interpolated",
           project |-> Null, path |-> <<>>]

createTask(project, target, configuration, ovr, errorIfCannotFindConfiguration) ==
  IF ~projectHasTarget(project, target)
  THEN [halt |-> ExitWith("Cannot find target", project, <<>>)]
  ELSE
    LET configuration2 ==
          IF configuration = Undefined
          THEN ProjectData(project).targets[target].defaultConfiguration
          ELSE configuration
        config ==
          IF projectHasTargetAndConfiguration(project, target, configuration2)
          THEN configuration2 ELSE Undefined
    IN IF /\ errorIfCannotFindConfiguration
          /\ configuration2 # Undefined /\ configuration2 # ""
          /\ config = Undefined
       THEN [halt |-> ExitWith("Cannot find configuration", project, <<>>)]
       ELSE IF InterpolationThrows(ovr)
       THEN [halt |-> Thrown]
       ELSE [halt |-> NoHalt,
             task |-> [id |-> getId(project, target, config),
                       target |-> [project |-> project, target |-> target,
                                   configuration |-> config],
                       projectRoot |-> ProjectData(project).root,
                       overrides |-> interpolateOverrides(ovr, project,
                                                          ProjectData(project))]]

\* Map<string, Task>: insertion order, a set on a present key keeps its place
MapHas(m, id) == \E i \in 1..Len(m) : m[i].id = id
\* a map that puts a new key first instead of last
MapSetFirst(m, task) ==
  IF MapHas(m, task.id)
  THEN [i \in 1..Len(m) |-> IF m[i].id = task.id THEN task ELSE m[i]]
  ELSE <<task>> \o m
MapSet(m, task) ==
  IF MapHas(m, task.id)
  THEN [i \in 1..Len(m) |-> IF m[i].id = task.id THEN task ELSE m[i]]
  ELSE Append(m, task)

RECURSIVE addTasksForProjectTarget(_, _, _, _, _, _, _, _)
RECURSIVE addTasksForProjectDependencyConfig(_, _, _, _, _, _, _)
RECURSIVE ForEachDependencyConfig(_, _, _, _, _, _, _, _)
RECURSIVE ForEachDependency(_, _, _, _, _, _, _, _)

\* S = [tasksMap, seenSet, halt]: the two collections createTasksForProjectToRun
\* shares with every call, and whether the process has ended
addTasksForProjectTarget(S, project, target, configuration, ovr, errorIfCannotFindConfiguration, defaultDependencyConfigs, path) ==
  IF S.halt # NoHalt THEN S
  ELSE
    LET r == createTask(project, target, configuration, ovr,
                        errorIfCannotFindConfiguration)
    IN IF r.halt # NoHalt THEN [S EXCEPT !.halt = r.halt]
       ELSE
         LET dependencyConfigs ==
               getDependencyConfigs(project, target, defaultDependencyConfigs)
             S2 == ForEachDependencyConfig(S, project, target, configuration,
                                           dependencyConfigs, 1,
                                           defaultDependencyConfigs, path)
         IN IF S2.halt # NoHalt THEN S2
            ELSE [S2 EXCEPT !.tasksMap = MapSet(@, r.task)]

\* the loop of addTasksForProjectTarget over dependencyConfigs
ForEachDependencyConfig(S, project, target, configuration, dependencyConfigs, i, defaultDependencyConfigs, path) ==
  IF S.halt # NoHalt \/ i > Len(dependencyConfigs) THEN S
  ELSE ForEachDependencyConfig(
         addTasksForProjectDependencyConfig(S, project, target, configuration,
                                            dependencyConfigs[i],
                                            defaultDependencyConfigs, path),
         project, target, configuration, dependencyConfigs, i + 1,
         defaultDependencyConfigs, path)

addTasksForProjectDependencyConfig(S, project, target, configuration, dependencyConfig, defaultDependencyConfigs, path) ==
  IF S.halt # NoHalt THEN S
  ELSE
    LET targetIdentifier == getId(project, target, configuration)
        S1 == [S EXCEPT !.seenSet = @ \cup {project}]
    IN IF targetIdentifier \in Range(path)
       THEN [S1 EXCEPT !.halt =
               ExitWith("circular dependency", project,
                        Append(path, targetIdentifier))]
       ELSE IF MapHas(S1.tasksMap, targetIdentifier) THEN S1
       ELSE IF dependencyConfig.projects = "dependencies"
       THEN ForEachDependency(S1, project, target, configuration,
                              dependencyConfig, 1, defaultDependencyConfigs,
                              path)
       ELSE addTasksForProjectTarget(S1, project, dependencyConfig.target,
                                     configuration, EmptyOverrides, TRUE,
                                     defaultDependencyConfigs,
                                     Append(path, targetIdentifier))

\* the loop of addTasksForProjectDependencyConfig over the project's dependencies
ForEachDependency(S, project, target, configuration, dependencyConfig, i, defaultDependencyConfigs, path) ==
  LET dependencies == projectGraph.dependencies[project]
  IN IF S.halt # NoHalt \/ i > Len(dependencies) THEN S
     ELSE
       LET dep == dependencies[i]
           S2 == IF projectHasTarget(dep, dependencyConfig.target)
                 THEN addTasksForProjectTarget(
                        S, dep, dependencyConfig.target, configuration,
                        EmptyOverrides, FALSE, defaultDependencyConfigs,
                        Append(path, getId(project, target, configuration)))
                 ELSE IF dep \in S.seenSet THEN S
                 ELSE addTasksForProjectDependencyConfig(
                        S, dep, target, configuration, dependencyConfig,
                        defaultDependencyConfigs, path)
       IN ForEachDependency(S2, project, target, configuration,
                            dependencyConfig, i + 1, defaultDependencyConfigs,
                            path)

RECURSIVE ForEachProjectToRun(_, _, _, _, _, _)
ForEachProjectToRun(S, toRun, i, params, initiating, defaultDependencyConfigs) ==
  IF S.halt # NoHalt \/ i > Len(toRun) THEN S
  ELSE ForEachProjectToRun(
         addTasksForProjectTarget(S, toRun[i], params.target,
                                  params.configuration, params.overrides,
                                  toRun[i] = initiating,
                                  defaultDependencyConfigs, <<>>),
         toRun, i + 1, params, initiating, defaultDependencyConfigs)

\* the result is the final S: S.tasksMap is the returned list when S.halt = NoHalt
createTasksForProjectToRun(toRun, params, initiating, defaultDependencyConfigs) ==
  ForEachProjectToRun([tasksMap |-> <<>>, seenSet |-> {}, halt |-> NoHalt],
                      toRun, 1, params, initiating, defaultDependencyConfigs)

\* nxJson.targetDependencies after ensureTargetDependenciesBackwardCompatibility
ensureTargetDependenciesBackwardCompatibility(deps, args) ==
  LET d0 == IF deps.defined THEN deps.rules ELSE <<>>
  IN IF args.withDeps /\ args.target \notin DOMAIN d0
     THEN [t \in DOMAIN d0 \cup {args.target} |->
             IF t = args.target THEN <<DependenciesRule(args.target)>>
             ELSE d0[t]]
     ELSE d0


-----------------------------------------------------------------------------
(* Task planner: the inputs main() can be started with *)

TargetData(confs, def) ==
  [configurations |-> confs, defaultConfiguration |-> def,
   dependsOn |-> NoRules]

\* a project whose targets all declare the same configurations
Node(p, targetNames, profile) ==
  [name |-> p,
   data |-> [root |-> "libs/" \o p,
             targets |-> [t \in targetNames |->
                            TargetData(profile.confs, profile.def)]]]

PlainProfile == [confs |-> {}, def |-> Undefined]
Profiles == {PlainProfile,
             [confs |-> {"prod"}, def |-> Undefined],
             [confs |-> {"dev"}, def |-> "dev"],
             [confs |-> {"prod", "dev"}, def |-> "dev"]}

DepLists(p) == SeqsNoRep(Projects \ {p}, MaxDeps)
AllDeps == {d \in [Projects -> UNION {DepLists(p) : p \in Projects}] :
              \A p \in Projects : d[p] \in DepLists(p)}
\* at most one dependency per project: chains, forks and cycles
ThinDeps == {d \in AllDeps : \A p \in Projects : Len(d[p]) <= 1}
ChainDeps == {[a |-> <<"b">>, b |-> <<>>, c |-> <<>>],
              [a |-> <<"b">>, b |-> <<"c">>, c |-> <<>>],
              [a |-> <<"b", "c">>, b |-> <<>>, c |-> <<>>]}
RuleLists == SeqsNoRep(Rules, MaxRules)
ToRunLists == {r \in SeqsNoRep(Projects, MaxToRun) : r # <<>> /\ r[1] = "a"}

Graph(nodes, deps) == [nodes |-> nodes, dependencies |-> deps]
RulesOf(rb, rt) ==
  [defined |-> TRUE, rules |-> [t \in Targets |-> IF t = "build" THEN rb ELSE rt]]

OverridesChoices ==
  {EmptyOverrides,
   [out |-> StringValue(<<Lit("dist/"), Interp("name")>>), n |-> NumberValue(1)],
   [out |-> StringValue(<<Interp("a.b")>>)]}

PlannerIdle ==
  /\ pc = "start"
  /\ tasks = <<>>
  /\ exitCode = NoExit
  /\ outputError = NoHalt
  /\ runnerTasks = <<>>

InitiatingOf(toRun) == IF Len(toRun) = 1 THEN toRun[1] ELSE Null

\* every project graph, the rule build -> ^build (written, or implied by
\* --with-deps), every choice of the projects that have the target
InitGraphs ==
  \E deps \in AllDeps, hasBuild \in SUBSET Projects, toRun \in ToRunLists,
     withDeps \in BOOLEAN :
    /\ projectGraph =
         Graph([p \in Projects |->
                  Node(p, IF p \in hasBuild THEN {"build"} ELSE {}, PlainProfile)],
               deps)
    /\ nxJson = [targetDependencies |->
                   IF withDeps THEN NoRules
                   ELSE RulesOf(<<DependenciesRule("build")>>, <<>>)]
    /\ nxArgs = [target |-> "build", configuration |-> Undefined,
                 withDeps |-> withDeps]
    /\ overrides = EmptyOverrides
    /\ projectsToRun = toRun
    /\ initiatingProject = InitiatingOf(toRun)
    /\ PlannerIdle

\* thin project graphs, every list of rules on build, two targets
InitRules ==
  \E deps \in ThinDeps,
     tn \in [Projects -> {{}, {"build"}, {"build", "test"}}],
     rb \in RuleLists,
     rt \in {<<>>, <<SelfRule("build")>>} :
    /\ tn["a"] # {}
    /\ projectGraph = Graph([p \in Projects |-> Node(p, tn[p], PlainProfile)], deps)
    /\ nxJson = [targetDependencies |-> RulesOf(rb, rt)]
    /\ nxArgs = [target |-> "build", configuration |-> Undefined,
                 withDeps |-> FALSE]
    /\ overrides = EmptyOverrides
    /\ projectsToRun = <<"a">>
    /\ initiatingProject = "a"
    /\ PlannerIdle

\* a requested configuration, projects that declare it or not
InitConfigurations ==
  \E deps \in ChainDeps,
     prof \in [Projects -> Profiles],
     rb \in {<<DependenciesRule("build")>>,
             <<DependenciesRule("build"), SelfRule("test")>>,
             <<SelfRule("test")>>},
     conf \in Configs \cup {Undefined},
     initiating \in {"a", Null},
     ovr \in OverridesChoices :
    /\ ovr # EmptyOverrides => prof = [p \in Projects |-> PlainProfile]
    /\ projectGraph = Graph([p \in Projects |-> Node(p, Targets, prof[p])], deps)
    /\ nxJson = [targetDependencies |-> RulesOf(rb, <<>>)]
    /\ nxArgs = [target |-> "build", configuration |-> conf, withDeps |-> FALSE]
    /\ overrides = ovr
    /\ projectsToRun = <<"a">>
    /\ initiatingProject = initiating
    /\ PlannerIdle

\* overrides with places to interpolate: a property that is there, one
\* that is not, the name twice, nested paths, a value that is no string
OverridesToInterpolate ==
  {[out |-> StringValue(<<Lit("dist/"), Interp("name")>>), n |-> NumberValue(1)],
   [out |-> StringValue(<<Interp("root"), Lit("/out/"), Interp("name"), Lit("-"),
                          Interp("name")>>)],
   [out |-> StringValue(<<Lit("src="), Interp("sourceRoot")>>), n |-> NumberValue(2)],
   [out |-> StringValue(<<Lit("plain")>>)],
   [out |-> StringValue(<<Interp("a.b")>>)],
   [n |-> NumberValue(1),
    out |-> StringValue(<<Lit("x"), Interp("name"), Interp("data.root")>>)]}

\* the requested projects in any order, among them dependencies of one
\* another, with overrides of the caller
InitOverrides ==
  \E deps \in ChainDeps, toRun \in SeqsNoRep(Projects, MaxToRun),
     hasBuild \in SUBSET Projects, rb \in {<<>>, <<DependenciesRule("build")>>},
     ovr \in OverridesToInterpolate :
    /\ toRun # <<>>
    /\ Range(toRun) \subseteq hasBuild
    /\ projectGraph =
         Graph([p \in Projects |->
                  Node(p, IF p \in hasBuild THEN {"build"} ELSE {}, PlainProfile)],
               deps)
    /\ nxJson = [targetDependencies |-> RulesOf(rb, <<>>)]
    /\ nxArgs = [target |-> "build", configuration |-> Undefined, withDeps |-> FALSE]
    /\ overrides = ovr
    /\ projectsToRun = toRun
    /\ initiatingProject = InitiatingOf(toRun)
    /\ PlannerIdle

\* no file is being scanned
ScanOff ==
  /\ filePath = [base |-> "", ext |-> ""]
  /\ sourceText = <<>>
  /\ importPositions = {}
  /\ lazyRoutes = {}
  /\ scanner = <<>>
  /\ scanPc = "off"
  /\ importedFiles = <<>>
  /\ explicitDependencies = <<>>

\* the tsc plugin is not loaded
TscOff ==
  /\ tscCacheFile = [exists |-> FALSE, content |-> <<>>]
  /\ targetsCache = <<>>
  /\ calculatedTargets = <<>>
  /\ createNodesResult = <<>>
  /\ tscRun = [pc |-> "off"]

\* the sync generator is not called
SyncOff ==
  /\ tree = <<>>
  /\ sync = [pc |-> "off"]

\* getRunner is not called
RunnerOff == runnerCall = [pc |-> "off"]

\* no life cycle and no renderer is created
TuiOff == tui = [pc |-> "off"] /\ summary = [kind |-> "off"]
RendererOff == renderer = [pc |-> "off"]

PlannerInit ==
  /\ InitGraphs \/ InitRules \/ InitConfigurations \/ InitOverrides
  /\ ScanOff /\ TscOff /\ SyncOff /\ RunnerOff /\ TuiOff /\ RendererOff

-----------------------------------------------------------------------------
(* Task planner: main() of RunCommand *)

\* main() up to the return of createTasksForProjectToRun
CreateTasks ==
  /\ pc = "start"
  /\ LET defaultDependencyConfigs ==
           ensureTargetDependenciesBackwardCompatibility(
             nxJson.targetDependencies, nxArgs)
         S == createTasksForProjectToRun(
                projectsToRun,
                [target |-> nxArgs.target,
                 configuration |-> nxArgs.configuration,
                 overrides |-> overrides],
                initiatingProject, defaultDependencyConfigs)
     IN /\ nxJson' = [targetDependencies |->
                     [defined |-> TRUE, rules |-> defaultDependencyConfigs]]
        /\ outputError' = S.halt
        /\ IF S.halt.kind = "exit"
           THEN pc' = "exited" /\ exitCode' = S.halt.code /\ tasks' = <<>>
           ELSE IF S.halt.kind = "throw"
           THEN pc' = "threw" /\ exitCode' = NoExit /\ tasks' = <<>>
           ELSE pc' = "planned" /\ exitCode' = NoExit /\ tasks' = S.tasksMap
  /\ UNCHANGED <<projectGraph, nxArgs, overrides, projectsToRun,
                 initiatingProject, runnerTasks>>
  /\ UNCHANGED othersThanPlanner

\* the rest of main(): the tasks are hashed and handed to the tasks runner
RunTasks ==
  /\ pc = "planned"
  /\ pc' = "running"
  /\ runnerTasks' = tasks
  /\ UNCHANGED <<projectGraph, nxJson, nxArgs, overrides,
                 projectsToRun, initiatingProject, tasks, exitCode,
                 outputError>>
  /\ UNCHANGED othersThanPlanner

PlannerNext == CreateTasks \/ RunTasks

PlannerSpec == PlannerInit /\ [][PlannerNext]_vars


-----------------------------------------------------------------------------
(* Task planner: what the rules ask for, stated without the planner *)

Planned == pc \in {"planned", "running"}
Finished == pc # "start"
RequestedTarget == nxArgs.target
EffectiveRules == nxJson.targetDependencies.rules
DirectDeps(p) == Range(projectGraph.dependencies[p])

\* the projects reachable from the set W through dependencies
RECURSIVE ReachableFrom(_)
ReachableFrom(W) ==
  LET W2 == W \cup UNION {DirectDeps(p) : p \in W}
  IN IF W2 = W THEN W ELSE ReachableFrom(W2)

AcyclicProjectGraph == \A p \in Projects : p \notin ReachableFrom(DirectDeps(p))

\* from the set W, on through the projects that lack target t
RECURSIVE ThroughLacking(_, _)
ThroughLacking(W, t) ==
  LET W2 == W \cup UNION {DirectDeps(p) : p \in {q \in W : ~projectHasTarget(q, t)}}
  IN IF W2 = W THEN W ELSE ThroughLacking(W2, t)

\* the projects a rule ^t of project p asks for: its direct dependencies that
\* have t, and the transitive lift through those that lack it
Lift(p, t) == {d \in ThroughLacking(DirectDeps(p), t) : projectHasTarget(d, t)}

\* the prerequisites <<project, target>> of the task <<p, t>>
Prereqs(p, t) ==
  LET cfgs == getDependencyConfigs(p, t, EffectiveRules)
  IN UNION {IF cfgs[i].projects = "dependencies"
            THEN {<<d, cfgs[i].target>> : d \in Lift(p, cfgs[i].target)}
            ELSE {<<p, cfgs[i].target>>} : i \in 1..Len(cfgs)}

RequestedTasks == {<<projectsToRun[i], RequestedTarget>> : i \in 1..Len(projectsToRun)}

RECURSIVE TaskClosure(_)
TaskClosure(W) ==
  LET W2 == W \cup UNION {Prereqs(x[1], x[2]) : x \in {y \in W : projectHasTarget(y[1], y[2])}}
  IN IF W2 = W THEN W ELSE TaskClosure(W2)

\* some task the request expands to is its own (transitive) prerequisite
TaskCycle ==
  \E x \in TaskClosure(RequestedTasks) :
    /\ projectHasTarget(x[1], x[2])
    /\ x \in TaskClosure(Prereqs(x[1], x[2]))

TaskIndex(p, t) == {i \in 1..Len(tasks) : tasks[i].target.project = p /\ tasks[i].target.target = t}
InTasks(p, t) == TaskIndex(p, t) # {}
TaskProjects == {tasks[i].target.project : i \in 1..Len(tasks)}

-----------------------------------------------------------------------------
(* Task planner: claims *)

C1_Pre ==
  /\ Finished
  /\ AcyclicProjectGraph
  /\ \A p \in Projects :
       projectHasTarget(p, RequestedTarget) =>
         getDependencyConfigs(p, RequestedTarget, EffectiveRules)
            = <<DependenciesRule(RequestedTarget)>>
  /\ \A p \in Range(projectsToRun) : projectHasTarget(p, RequestedTarget)
  /\ \/ nxArgs.configuration = Undefined
     \/ initiatingProject = Null
     \/ projectHasTargetAndConfiguration(initiatingProject, RequestedTarget, nxArgs.configuration)
  /\ ~InterpolationThrows(overrides)

C1_Expected ==
  {p \in ReachableFrom(Range(projectsToRun)) : projectHasTarget(p, RequestedTarget)}

\* C1: with an acyclic project graph and the rule T -> ^T the planner returns
\* exactly one task of target T for every requested project and every
\* dependency that has T, every prerequisite before the task that needs it.
C1_OneTaskEachPrerequisiteFirst ==
  C1_Pre =>
    /\ Planned
    /\ TaskProjects = C1_Expected
    /\ Len(tasks) = Cardinality(C1_Expected)
    /\ \A i \in 1..Len(tasks) : tasks[i].target.target = RequestedTarget
    /\ \A i, j \in 1..Len(tasks) :
         <<tasks[i].target.project, RequestedTarget>>
            \in Prereqs(tasks[j].target.project, RequestedTarget) => i < j

\* a -> b -> c where b lacks the target: c:build is lifted and comes first
C1_Witness ==
  /\ C1_Pre
  /\ projectGraph.dependencies = [a |-> <<"b">>, b |-> <<"c">>, c |-> <<>>]
  /\ ~projectHasTarget("b", "build")
  /\ Len(tasks) = 2
  /\ tasks[1].id = "c:build"
  /\ tasks[2].id = "a:build"

IsCyclePath(path) ==
  /\ Len(path) >= 2
  /\ \E i \in 1..(Len(path) - 1) : path[i] = path[Len(path)]
  /\ \A i \in 1..(Len(path) - 1) :
       \E x \in Projects \X Targets, y \in Projects \X Targets :
         /\ path[i] = getId(x[1], x[2], nxArgs.configuration)
         /\ path[i + 1] = getId(y[1], y[2], nxArgs.configuration)
         /\ projectHasTarget(x[1], x[2])
         /\ y \in Prereqs(x[1], x[2])

\* C2: rules that induce a cycle among the task ids make the planner abort,
\* and the path it then reports is a cycle of prerequisite relations.
C2_CycleAbortsWithRealCycle ==
  Finished =>
    /\ TaskCycle => pc = "exited"
    /\ (pc = "exited" /\ outputError.title = "circular dependency")
          => IsCyclePath(outputError.path)

\* C3: for every rule ^T' of a planned task the list holds the task (D, T') of
\* every project D the rule asks for, whatever was visited before.
C3_EveryLiftedTaskPlanned ==
  Planned =>
    \A i \in 1..Len(tasks) :
      LET cfgs == getDependencyConfigs(tasks[i].target.project, tasks[i].target.target, EffectiveRules)
      IN \A k \in 1..Len(cfgs) :
           cfgs[k].projects = "dependencies" =>
             \A d \in Lift(tasks[i].target.project, cfgs[k].target) :
               InTasks(d, cfgs[k].target)

\* C4: 'Cannot find configuration' is raised for the initiating project only.
C4_ConfigurationErrorOnlyForInitiating ==
  (pc = "exited" /\ outputError.title = "Cannot find configuration")
     => outputError.project = initiatingProject

\* C5: a propagated task whose target does not declare the requested
\* configuration carries the default configuration of that target.
C5_PropagatedTaskUsesDefault ==
  (Planned /\ nxArgs.configuration # Undefined) =>
    \A i \in 1..Len(tasks) :
      LET t == tasks[i].target
      IN (/\ t.project # initiatingProject
          /\ ~projectHasTargetAndConfiguration(t.project, t.target, nxArgs.configuration))
         => t.configuration = ProjectData(t.project).targets[t.target].defaultConfiguration

\* C6: every planner abort ends the invocation with exit code 2, before any
\* task list reaches a runner.
C6_AbortExitsWithTwo ==
  pc = "exited" => (exitCode = 2 /\ runnerTasks = <<>>)

-----------------------------------------------------------------------------
(* Import scanner: the source text *)

\* A source text is a sequence of lexemes.  k is the lexeme's kind (the
\* SyntaxKind the scanner gives it outside a template, or NewLine, Comment,
\* Backtick, Dollar), v its text (a string's content, an identifier's name,
\* a comment's opening), c the pieces of a comment's text.
Tok(k) == [k |-> k, v |-> "", c |-> <<>>]
Id(v) == [k |-> "Identifier", v |-> v, c |-> <<>>]
Str(v) == [k |-> "StringLiteral", v |-> v, c |-> <<>>]
NewLine == Tok("NewLine")
LineComment(c) == [k |-> "Comment", v |-> "//", c |-> c]
BlockComment(c) == [k |-> "Comment", v |-> "/*", c |-> c]
Backtick == Tok("Backtick")
Dollar == Tok("Dollar")

KeywordKinds ==
  {"ImportKeyword", "ExportKeyword", "FromKeyword", "AsKeyword", "TypeKeyword",
   "RequireKeyword", "DeclareKeyword", "ModuleKeyword", "FunctionKeyword",
   "ConstKeyword", "AwaitKeyword"}
isKeyword(token) == token \in KeywordKinds

LexemeText(l) ==
  CASE l.k = "StringLiteral" -> "'" \o l.v \o "'"
    [] l.k = "Identifier" -> l.v
    [] l.k = "ImportKeyword" -> "import"
    [] l.k = "RequireKeyword" -> "require"
    [] l.k = "FromKeyword" -> "from"
    [] l.k = "NewLine" -> "\n"
    [] OTHER -> l.k

\* the text of the lexemes a..b
RECURSIVE TextBetween(_, _, _)
TextBetween(text, a, b) ==
  IF a > b THEN ""
  ELSE IF a = b THEN LexemeText(text[a])
  ELSE LexemeText(text[a]) \o " " \o TextBetween(text, a + 1, b)

\* line breaks inside one lexeme
RECURSIVE CountBreaks(_, _)
CountBreaks(c, i) ==
  IF i > Len(c) THEN 0
  ELSE (IF c[i] = "\n" THEN 1 ELSE 0) + CountBreaks(c, i + 1)
LineBreaks(l) == IF l.k = "NewLine" THEN 1 ELSE CountBreaks(l.c, 1)

\* computeLineOfPosition(computeLineStarts(text), pos), pos the start of lexeme i
RECURSIVE computeLineOfPosition(_, _)
computeLineOfPosition(text, i) ==
  IF i <= 1 THEN 0
  ELSE LineBreaks(text[i - 1]) + computeLineOfPosition(text, i - 1)

-----------------------------------------------------------------------------
(* Import scanner: ts.createScanner(ScriptTarget.Latest, skipTrivia = true) *)

IsTrivia(l) == l.k \in {"NewLine", "Comment"}

RECURSIVE SkipTrivia(_, _)
SkipTrivia(text, p) ==
  IF p <= Len(text) /\ IsTrivia(text[p]) THEN SkipTrivia(text, p + 1) ELSE p

IsSubstitutionStart(text, j) ==
  j < Len(text) /\ text[j].k = "Dollar" /\ text[j + 1].k = "OpenBraceToken"

\* the first lexeme from j on that ends a template span: a backtick or ${
RECURSIVE TemplateEnd(_, _)
TemplateEnd(text, j) ==
  IF j > Len(text) THEN j
  ELSE IF text[j].k = "Backtick" \/ IsSubstitutionStart(text, j) THEN j
  ELSE TemplateEnd(text, j + 1)

\* the template span that starts at lexeme i, a backtick or a closing brace
scanTemplate(text, i, startedWithBacktick) ==
  LET j == TemplateEnd(text, i + 1)
      closed == j > Len(text) \/ text[j].k = "Backtick"
  IN [kind |-> IF closed
               THEN (IF startedWithBacktick
                     THEN "NoSubstitutionTemplateLiteral" ELSE "TemplateTail")
               ELSE (IF startedWithBacktick
                     THEN "TemplateHead" ELSE "TemplateMiddle"),
      pos |-> i,
      end |-> IF j > Len(text) THEN j ELSE IF closed THEN j + 1 ELSE j + 2,
      value |-> TextBetween(text, i + 1, j - 1)]

\* scanner.scan() from position p
scan(text, p) ==
  LET i == SkipTrivia(text, p)
  IN IF i > Len(text)
     THEN [kind |-> "EndOfFileToken", pos |-> i, end |-> i, value |-> ""]
     ELSE IF text[i].k = "Backtick" THEN scanTemplate(text, i, TRUE)
     ELSE IF text[i].k = "Dollar"
     THEN [kind |-> "Identifier", pos |-> i, end |-> i + 1, value |-> "$"]
     ELSE [kind |-> text[i].k, pos |-> i, end |-> i + 1, value |-> text[i].v]

\* the scanner's fields and the locals of preProcessFile
NewScanner ==
  [end |-> 1, token |-> "Unknown", tokenPos |-> 1, tokenValue |-> "",
   currentToken |-> "Unknown", lastToken |-> "Unknown", braceNesting |-> 0,
   importedFiles |-> <<>>, ambientExternalModules |-> <<>>,
   externalModule |-> FALSE]

\* scanner.setText: the position and the token state start over
setText(S) ==
  [S EXCEPT !.end = 1, !.token = "Unknown", !.tokenPos = 1, !.tokenValue = ""]

\* a call keeps the locals of the call before it
SameLocals(S) == S

\* the locals preProcessFile declares at the start of a call
Locals(S) ==
  [S EXCEPT !.importedFiles = <<>>, !.ambientExternalModules = <<>>,
            !.lastToken = "Unknown", !.currentToken = "Unknown",
            !.braceNesting = 0, !.externalModule = FALSE]

ScanInto(S, t) ==
  [S EXCEPT !.end = t.end, !.token = t.kind, !.tokenPos = t.pos,
            !.tokenValue = t.value]

scannerScan(S) == ScanInto(S, scan(sourceText, S.end))

reScanTemplateToken(S) == ScanInto(S, scanTemplate(sourceText, S.tokenPos, FALSE))

\* nextToken once the scanner has scanned: S0 is the state before the scan
Advance(S0, S) ==
  [S EXCEPT !.lastToken = S0.currentToken,
            !.currentToken = S.token,
            !.braceNesting =
               IF S.token = "OpenBraceToken" THEN @ + 1
               ELSE IF S.token = "CloseBraceToken" THEN @ - 1
               ELSE @]

nextToken(S) == Advance(S, scannerScan(S))

getFileReference(S) == [fileName |-> S.tokenValue, pos |-> S.tokenPos]

recordAmbientExternalModule(S) ==
  [S EXCEPT !.ambientExternalModules =
     Append(@, [ref |-> getFileReference(S), depth |-> S.braceNesting])]

recordModuleName(S) ==
  [S EXCEPT !.importedFiles = Append(@, getFileReference(S)),
            !.externalModule = @ \/ S.braceNesting = 0]

markAsExternalModuleIfTopLevel(S) ==
  [S EXCEPT !.externalModule = @ \/ S.braceNesting = 0]

-----------------------------------------------------------------------------
(* Import scanner: the alternatives of processImports *)

\* what a tryConsume function hands back: its result and the scanner after it
Consumed(S) == [consumed |-> TRUE, S |-> S]
NotConsumed(S) == [consumed |-> FALSE, S |-> S]

IsModuleSpecifier(S, allowTemplateLiterals) ==
  \/ S.token = "StringLiteral"
  \/ allowTemplateLiterals /\ S.token = "NoSubstitutionTemplateLiteral"

IsName(S) == S.token = "Identifier" \/ isKeyword(S.token)

\* if (token is a module specifier) recordModuleName()
RecordSpecifier(S, allowTemplateLiterals) ==
  IF IsModuleSpecifier(S, allowTemplateLiterals) THEN recordModuleName(S) ELSE S

\* tryConsumeDeclare at the token after module
AmbientModuleName(S) ==
  IF S.token = "StringLiteral" THEN recordAmbientExternalModule(S) ELSE S

\* tryConsumeDeclare at the token after declare
DeclareModule(S) ==
  IF S.token = "ModuleKeyword" THEN AmbientModuleName(nextToken(S)) ELSE S

tryConsumeDeclare(S) ==
  IF S.token # "DeclareKeyword" THEN NotConsumed(S)
  ELSE Consumed(DeclareModule(nextToken(S)))

\* tryConsumeRequireCall at the token after require
RequireArgument(S, allowTemplateLiterals) ==
  IF S.token = "OpenParenToken"
  THEN RecordSpecifier(nextToken(S), allowTemplateLiterals)
  ELSE S

\* tryConsumeRequireCall at its first token
RequireCall(S, allowTemplateLiterals) ==
  IF S.token # "RequireKeyword" THEN NotConsumed(S)
  ELSE Consumed(RequireArgument(nextToken(S), allowTemplateLiterals))

tryConsumeRequireCall(S, skipCurrentToken, allowTemplateLiterals) ==
  RequireCall(IF skipCurrentToken THEN nextToken(S) ELSE S, allowTemplateLiterals)

\* while (token !== CloseBraceToken && token !== EndOfFileToken) token = nextToken()
RECURSIVE SkipToCloseBrace(_)
SkipToCloseBrace(S) ==
  IF S.token \in {"CloseBraceToken", "EndOfFileToken"} THEN S
  ELSE SkipToCloseBrace(nextToken(S))

\* from "mod": the tokens after a clause
FromClause(S) ==
  IF S.token = "FromKeyword" THEN RecordSpecifier(nextToken(S), FALSE) ELSE S

\* a clause in braces, at the token the skipping loop stopped on
AfterBraces(S) ==
  IF S.token = "CloseBraceToken" THEN FromClause(nextToken(S)) ELSE S

\* { a as B, c } from "mod", at the opening brace
BracedClause(S) == AfterBraces(SkipToCloseBrace(nextToken(S)))

\* * as NS from "mod", at the token after as
NamespaceName(S) == IF IsName(S) THEN FromClause(nextToken(S)) ELSE S

\* * as NS from "mod", at the token after the asterisk
NamespaceClause(S) ==
  IF S.token = "AsKeyword" THEN NamespaceName(nextToken(S)) ELSE S

\* the end of tryConsumeImport: { ... } from "mod", or * as NS from "mod";
\* token is the function's local, the last token it looked at
ImportBindings(S, token) ==
  IF token = "OpenBraceToken" THEN Consumed(BracedClause(S))
  ELSE IF token = "AsteriskToken" THEN Consumed(NamespaceClause(nextToken(S)))
  ELSE Consumed(S)

\* the end of tryConsumeImport, token the token the scanner is at
ImportBindingsAt(S) == ImportBindings(S, S.token)

\* import d from: "mod", or something that is not a string
DefaultImportFrom(S) ==
  IF S.token = "StringLiteral" THEN Consumed(recordModuleName(S))
  ELSE ImportBindingsAt(S)

\* import d = require("mod"): r is what tryConsumeRequireCall handed back
ImportEquals(r) ==
  IF r.consumed THEN r ELSE ImportBindings(r.S, "EqualsToken")

\* tryConsumeImport at the token after import d
AfterDefaultImport(S) ==
  IF S.token = "FromKeyword" THEN DefaultImportFrom(nextToken(S))
  ELSE IF S.token = "EqualsToken"
  THEN ImportEquals(tryConsumeRequireCall(S, TRUE, FALSE))
  ELSE IF S.token = "CommaToken" THEN ImportBindingsAt(nextToken(S))
  ELSE Consumed(S)

\* tryConsumeImport at the import clause
ImportClause(S) ==
  IF IsName(S) THEN AfterDefaultImport(nextToken(S))
  ELSE ImportBindingsAt(S)

\* scanner.lookAhead of tryConsumeImport after import type
SkipTypeKeywordOfImport(S) ==
  /\ scan(sourceText, S.end).kind # "FromKeyword"
  /\ \/ scan(sourceText, S.end).kind \in {"AsteriskToken", "OpenBraceToken", "Identifier"}
     \/ isKeyword(scan(sourceText, S.end).kind)

\* tryConsumeImport at the token after import
AfterImportKeyword(S) ==
  IF S.token = "OpenParenToken" THEN Consumed(RecordSpecifier(nextToken(S), TRUE))
  ELSE IF S.token = "StringLiteral" THEN Consumed(recordModuleName(S))
  ELSE IF S.token = "TypeKeyword" /\ SkipTypeKeywordOfImport(S)
  THEN ImportClause(nextToken(S))
  ELSE ImportClause(S)

tryConsumeImport(S) ==
  IF S.lastToken = "DotToken" THEN NotConsumed(S)
  ELSE IF S.token # "ImportKeyword" THEN NotConsumed(S)
  ELSE AfterImportKeyword(nextToken(S))

\* export import i = require("mod"), at the token after the name
ExportImportRequire(S) ==
  IF S.token = "EqualsToken" THEN tryConsumeRequireCall(S, TRUE, FALSE).S ELSE S

\* export import i = require("mod"), at the name
ExportImportName(S) == IF IsName(S) THEN ExportImportRequire(nextToken(S)) ELSE S

\* tryConsumeExport at the token after export import: the type keyword is
\* skipped when a name follows it
ExportImport(S) ==
  IF /\ S.token = "TypeKeyword"
     /\ \/ scan(sourceText, S.end).kind = "Identifier"
        \/ isKeyword(scan(sourceText, S.end).kind)
  THEN ExportImportName(nextToken(S))
  ELSE ExportImportName(S)

\* tryConsumeExport at the export clause
ExportClause(S) ==
  IF S.token = "OpenBraceToken" THEN BracedClause(S)
  ELSE IF S.token = "AsteriskToken" THEN FromClause(nextToken(S))
  ELSE IF S.token = "ImportKeyword" THEN ExportImport(nextToken(S))
  ELSE S

\* tryConsumeExport at the token after export: the type keyword is skipped
\* when an asterisk or a brace follows it
AfterExportKeyword(S) ==
  IF /\ S.token = "TypeKeyword"
     /\ scan(sourceText, S.end).kind \in {"AsteriskToken", "OpenBraceToken"}
  THEN ExportClause(nextToken(S))
  ELSE ExportClause(S)

tryConsumeExport(S) ==
  IF S.token # "ExportKeyword" THEN NotConsumed(S)
  ELSE Consumed(AfterExportKeyword(nextToken(markAsExternalModuleIfTopLevel(S))))

\* the dependency list of define: every string up to ']' or the end of file
RECURSIVE DefineDependencies(_)
DefineDependencies(S) ==
  IF S.token \in {"CloseBracketToken", "EndOfFileToken"} THEN S
  ELSE DefineDependencies(nextToken(RecordSpecifier(S, TRUE)))

\* define at what should be the start of the dependency list
DefineList(S) ==
  IF S.token = "OpenBracketToken" THEN DefineDependencies(nextToken(S)) ELSE S

\* define("modname", at the token after the name
DefineAfterName(S) ==
  IF S.token = "CommaToken" THEN DefineList(nextToken(S)) ELSE S

\* define at the token after its '('
DefineArguments(S) ==
  IF IsModuleSpecifier(S, TRUE) THEN DefineAfterName(nextToken(S)) ELSE DefineList(S)

\* define at the token after the identifier
DefineCall(S) ==
  IF S.token = "OpenParenToken" THEN DefineArguments(nextToken(S)) ELSE S

tryConsumeDefine(S) ==
  IF ~(S.token = "Identifier" /\ S.tokenValue = "define") THEN NotConsumed(S)
  ELSE Consumed(DefineCall(nextToken(S)))

-----------------------------------------------------------------------------
(* Import scanner: processImports *)

Pop(stack) == SubSeq(stack, 1, Len(stack) - 1)
Top(stack) == stack[Len(stack)]

\* a closing brace that ends a substitution: the template goes on (middle)
\* or ends (tail)
ReScanned(S, stack) ==
  [S |-> S, stack |-> IF S.token = "TemplateTail" THEN Pop(stack) ELSE stack]

\* the switch of the loop over a template; S.token is the loop's local token,
\* the last token scanner.scan() gave
TemplateSwitch(S, stack) ==
  CASE S.token = "ImportKeyword" ->
         [S |-> tryConsumeImport(S).S, stack |-> stack]
    [] S.token = "TemplateHead" ->
         [S |-> S, stack |-> Append(stack, "TemplateHead")]
    [] S.token = "OpenBraceToken" ->
         [S |-> S, stack |-> Append(stack, "OpenBraceToken")]
    [] S.token = "CloseBraceToken" ->
         IF Top(stack) = "TemplateHead"
         THEN ReScanned(reScanTemplateToken(S), stack)
         ELSE [S |-> S, stack |-> Pop(stack)]
    [] OTHER -> [S |-> S, stack |-> stack]

RECURSIVE TemplateLoop(_, _)
RECURSIVE TemplateNext(_)

\* loop: while (length(stack)) { switch (token) ...; token = scanner.scan() }
TemplateLoop(S, stack) ==
  IF stack = <<>> \/ S.token = "EndOfFileToken" THEN S
  ELSE TemplateNext(TemplateSwitch(S, stack))

TemplateNext(r) == TemplateLoop(scannerScan(r.S), r.stack)

\* if (scanner.getToken() === TemplateHead) { ...; nextToken() }
ConsumeTemplate(S) ==
  nextToken(TemplateLoop(scannerScan(S), <<"TemplateHead">>))

detectJavaScriptImports == TRUE

\* tryConsumeDeclare() || tryConsumeImport() || ...: the scanner after the
\* first alternative that consumed, or after nextToken()
RECURSIVE FirstConsumed(_, _)
FirstConsumed(results, otherwise) ==
  IF results = <<>> THEN otherwise
  ELSE IF results[1].consumed THEN results[1].S
  ELSE FirstConsumed(Tail(results), otherwise)

\* the alternatives without the nextToken() of the else branch
AlternativesOnly(S) ==
  FirstConsumed(
    <<tryConsumeDeclare(S), tryConsumeImport(S), tryConsumeExport(S),
      tryConsumeRequireCall(S, FALSE, TRUE), tryConsumeDefine(S)>>,
    S)

\* the alternatives of one turn of the loop of processImports
Alternatives(S) ==
  FirstConsumed(
    <<tryConsumeDeclare(S), tryConsumeImport(S), tryConsumeExport(S)>> \o
      (IF detectJavaScriptImports
       THEN <<tryConsumeRequireCall(S, FALSE, TRUE), tryConsumeDefine(S)>>
       ELSE <<>>),
    nextToken(S))

\* one turn of the while (true) of processImports, the token not EndOfFile
processImportsStep(S) ==
  Alternatives(IF S.token = "TemplateHead" THEN ConsumeTemplate(S) ELSE S)

-----------------------------------------------------------------------------
(* Import scanner: the source file the TypeScript parser builds *)

\* Walks the text as the parser does.  stack holds what is open: a template
\* "T", a substitution "E", a brace, parenthesis or bracket "B".
IsOpener(l) == l.k \in {"OpenBraceToken", "OpenParenToken", "OpenBracketToken"}
IsCloser(l) == l.k \in {"CloseBraceToken", "CloseParenToken", "CloseBracketToken"}
InTemplateText(stack) == stack # <<>> /\ Top(stack) = "T"

\* getSourceFile: the lexemes that are code or trivia, not template text
RECURSIVE CodeLexemes(_, _, _)
CodeLexemes(text, i, stack) ==
  IF i > Len(text) THEN {}
  ELSE IF InTemplateText(stack)
  THEN IF text[i].k = "Backtick" THEN CodeLexemes(text, i + 1, Pop(stack))
       ELSE IF IsSubstitutionStart(text, i)
       THEN CodeLexemes(text, i + 2, Append(stack, "E"))
       ELSE CodeLexemes(text, i + 1, stack)
  ELSE IF text[i].k = "Backtick"
  THEN CodeLexemes(text, i + 1, Append(stack, "T"))
  ELSE {i} \cup
       CodeLexemes(text, i + 1,
                   IF IsOpener(text[i]) THEN Append(stack, "B")
                   ELSE IF IsCloser(text[i]) /\ stack # <<>> THEN Pop(stack)
                   ELSE stack)

getSourceFile(text) == CodeLexemes(text, 1, <<>>)

\* the lexeme that follows the expression starting at lexeme i: the comma or
\* the closer that ends it, or the end of the text
RECURSIVE ExpressionEnd(_, _, _)
ExpressionEnd(text, i, stack) ==
  IF i > Len(text) THEN i
  ELSE IF InTemplateText(stack)
  THEN IF text[i].k = "Backtick" THEN ExpressionEnd(text, i + 1, Pop(stack))
       ELSE IF IsSubstitutionStart(text, i)
       THEN ExpressionEnd(text, i + 2, Append(stack, "E"))
       ELSE ExpressionEnd(text, i + 1, stack)
  ELSE IF text[i].k = "Backtick"
  THEN ExpressionEnd(text, i + 1, Append(stack, "T"))
  ELSE IF stack = <<>> /\ (IsCloser(text[i]) \/ text[i].k = "CommaToken") THEN i
  ELSE ExpressionEnd(text, i + 1,
                     IF IsOpener(text[i]) THEN Append(stack, "B")
                     ELSE IF IsCloser(text[i]) THEN Pop(stack)
                     ELSE stack)

-----------------------------------------------------------------------------
(* Import scanner: nx-ignore-next-line *)

NxIgnoreNextLine == "nx-ignore-next-line"

\* sourceText.split('nx-ignore-next-line').length - 1 > 0
ContainsNxIgnoreNextLine(l) ==
  l.v = NxIgnoreNextLine \/ \E j \in 1..Len(l.c) : l.c[j] = NxIgnoreNextLine
totalNxIgnoreNextLineOccurrences(text) ==
  Cardinality({i \in 1..Len(text) : ContainsNxIgnoreNextLine(text[i])})

IsWhiteSpace(piece) == piece \in {" ", "\n"}

RECURSIVE trim(_)
trim(c) ==
  IF c = <<>> THEN c
  ELSE IF IsWhiteSpace(c[1]) THEN trim(Tail(c))
  ELSE IF IsWhiteSpace(c[Len(c)]) THEN trim(Pop(c))
  ELSE c

toLowerCase(piece) ==
  IF piece \in {"NX-IGNORE-NEXT-LINE", "Nx-Ignore-Next-Line"}
  THEN "nx-ignore-next-line" ELSE piece

\* commentText(sourceText, comment).trim().toLowerCase()
commentTextContents(l) == [j \in 1..Len(trim(l.c)) |-> toLowerCase(trim(l.c)[j])]

\* forEachComment: the comments of the source file
forEachComment(text) ==
  {i \in getSourceFile(text) : text[i].k = "Comment"}

\* the set the loop over the comments builds; empty when the text search
\* finds no occurrence
ignoredLines(text) ==
  IF totalNxIgnoreNextLineOccurrences(text) > 0
  THEN {computeLineOfPosition(text, i + 1) + 1 :
          i \in {j \in forEachComment(text) :
                   commentTextContents(text[j]) = <<NxIgnoreNextLine>>}}
  ELSE {}

RECURSIVE FilterIgnored(_, _, _)
FilterIgnored(text, files, lines) ==
  IF files = <<>> THEN <<>>
  ELSE (IF computeLineOfPosition(text, files[1].pos) \in lines
        THEN <<>> ELSE <<files[1]>>)
       \o FilterIgnored(text, Tail(files), lines)

-----------------------------------------------------------------------------
(* Import scanner: legacy Angular loadChildren strings *)

RECURSIVE SkipNewLines(_, _)
SkipNewLines(text, p) ==
  IF p <= Len(text) /\ text[p].k = "NewLine" THEN SkipNewLines(text, p + 1) ELSE p

\* sourceText.match(angularLoadChildrenLegacySyntaxUsage): loadChildren, a colon
\* and a quote or a backtick, white space between them allowed
angularLoadChildrenLegacySyntaxUsage(text) ==
  \E i \in 1..Len(text) :
    /\ text[i].k = "Identifier" /\ text[i].v = "loadChildren"
    /\ LET colon == SkipNewLines(text, i + 1)
       IN /\ colon <= Len(text) /\ text[colon].k = "ColonToken"
          /\ LET quote == SkipNewLines(text, colon + 1)
             IN /\ quote <= Len(text)
                /\ text[quote].k \in {"StringLiteral", "Backtick"}

\* ts.isPropertyAssignment(node), node starting at lexeme i: a name and a colon
isPropertyAssignment(text, i) ==
  /\ i \in getSourceFile(text)
  /\ text[i].k \in {"Identifier", "StringLiteral"}
  /\ LET colon == SkipTrivia(text, i + 1)
     IN colon <= Len(text) /\ text[colon].k = "ColonToken"

getPropertyAssignmentName(text, i) == text[i].v

\* the initializer of the property at lexeme i: where its full start is, where
\* the expression starts, and whether it is one string or template literal
Initializer(text, i) ==
  LET colon == SkipTrivia(text, i + 1)
      start == SkipTrivia(text, colon + 1)
      end == ExpressionEnd(text, start, <<>>)
      template == scanTemplate(text, start, TRUE)
      isStringLiteral ==
        /\ start <= Len(text) /\ text[start].k = "StringLiteral"
        /\ end = SkipTrivia(text, start + 1)
      isNoSubstitutionTemplateLiteral ==
        /\ start <= Len(text) /\ text[start].k = "Backtick"
        /\ template.kind = "NoSubstitutionTemplateLiteral"
        /\ end = SkipTrivia(text, template.end)
  IN [pos |-> colon + 1,
      end |-> end,
      isLiteral |-> isStringLiteral \/ isNoSubstitutionTemplateLiteral,
      \* getStringLiteralValue: getText().slice(1, -1)
      value |-> IF isStringLiteral THEN text[start].v
                ELSE IF isNoSubstitutionTemplateLiteral THEN template.value
                ELSE ""]

\* sourceFile.forEachChild(visitor) from lexeme i on: the file references the
\* visitor pushes
RECURSIVE visitor(_, _, _)
visitor(text, lines, i) ==
  IF i > Len(text) THEN <<>>
  ELSE IF /\ isPropertyAssignment(text, i)
          /\ getPropertyAssignmentName(text, i) = "loadChildren"
  THEN LET init == Initializer(text, i)
           isIgnored == computeLineOfPosition(text, init.pos) \in lines
       IN (IF init.isLiteral /\ ~isIgnored /\ init.value # ""
           THEN <<[fileName |-> init.value, pos |-> init.pos]>>
           ELSE <<>>)
          \o visitor(text, lines, init.end)
  ELSE visitor(text, lines, i + 1)

loadChildrenFiles(text) ==
  IF angularLoadChildrenLegacySyntaxUsage(text)
  THEN visitor(text, ignoredLines(text), 1)
  ELSE <<>>

-----------------------------------------------------------------------------
(* Import scanner: preProcessFile and buildExplicitTypeScriptDependencies *)

\* the ambient modules that are moved to the imported files
RECURSIVE AmbientImports(_, _)
AmbientImports(decls, externalModule) ==
  IF decls = <<>> THEN <<>>
  ELSE (IF externalModule \/ decls[1].depth # 0 THEN <<decls[1].ref>> ELSE <<>>)
       \o AmbientImports(Tail(decls), externalModule)

\* preProcessFile after processImports: S is the scanner at the end of file
preProcessFile(text, S) ==
  FilterIgnored(text, S.importedFiles, ignoredLines(text))
    \o loadChildrenFiles(text)
    \o AmbientImports(S.ambientExternalModules, S.externalModule)

extname(file) == file.ext
SourceExtensions == {".ts", ".tsx", ".js", ".jsx"}

sourceProjectName == "proj"

\* the projects of the workspace's import paths
findProjectWithImport(fileName) ==
  CASE fileName = "@proj/proj2" -> "proj2"
    [] fileName = "@proj/proj3a" -> "proj3a"
    [] fileName = "@proj/proj4ab#a" -> "proj4ab"
    [] OTHER -> Null

\* a dependency for every imported file, the unresolved ones to no project
ExplicitDependenciesUnresolved(files, file) ==
  [k \in 1..Len(files) |->
     [sourceProjectName |-> sourceProjectName,
      targetProjectName |-> findProjectWithImport(files[k].fileName),
      sourceProjectFile |-> file]]

RECURSIVE ExplicitDependencies(_, _)
ExplicitDependencies(files, file) ==
  IF files = <<>> THEN <<>>
  ELSE LET target == findProjectWithImport(files[1].fileName)
       IN (IF target = Null THEN <<>>
           ELSE <<[sourceProjectName |-> sourceProjectName,
                   targetProjectName |-> target,
                   sourceProjectFile |-> file]>>)
          \o ExplicitDependencies(Tail(files), file)

\* a file with a source extension: its content is read and the scan starts
ReadFile ==
  /\ scanPc = "read"
  /\ extname(filePath) \in SourceExtensions
  /\ scanner' = nextToken(setText(Locals(scanner)))
  /\ scanPc' = "scan"
  /\ UNCHANGED <<filePath, sourceText, importPositions, lazyRoutes,
                 importedFiles, explicitDependencies>>
  /\ UNCHANGED othersThanScan

\* a file with another extension is passed over
SkipFile ==
  /\ scanPc = "read"
  /\ extname(filePath) \notin SourceExtensions
  /\ scanPc' = "done"
  /\ UNCHANGED <<filePath, sourceText, importPositions, lazyRoutes, scanner,
                 importedFiles, explicitDependencies>>
  /\ UNCHANGED othersThanScan

\* one turn of the loop of processImports
ScanStep ==
  /\ scanPc = "scan"
  /\ scanner.token # "EndOfFileToken"
  /\ scanner' = processImportsStep(scanner)
  /\ UNCHANGED <<filePath, sourceText, importPositions, lazyRoutes, scanPc,
                 importedFiles, explicitDependencies>>
  /\ UNCHANGED othersThanScan

\* the loop ends at the end of file; the rest of preProcessFile
PostProcess ==
  /\ scanPc = "scan"
  /\ scanner.token = "EndOfFileToken"
  /\ scanner' = setText(scanner)
  /\ importedFiles' = preProcessFile(sourceText, scanner)
  /\ scanPc' = "emit"
  /\ UNCHANGED <<filePath, sourceText, importPositions, lazyRoutes,
                 explicitDependencies>>
  /\ UNCHANGED othersThanScan

\* the loop of buildExplicitTypeScriptDependencies over importedFiles
EmitDependencies ==
  /\ scanPc = "emit"
  /\ explicitDependencies' =
       explicitDependencies \o ExplicitDependencies(importedFiles, filePath)
  /\ scanPc' = "done"
  /\ UNCHANGED <<filePath, sourceText, importPositions, lazyRoutes, scanner,
                 importedFiles>>
  /\ UNCHANGED othersThanScan

FirstFile == "libs/proj/index"
NextFilePath == "libs/proj/next"

\* the loop of buildExplicitTypeScriptDependencies goes on to the next file,
\* with the same preProcessFile instance; content is that file's content
NextFile(content) ==
  /\ scanPc = "done"
  /\ filePath.base = FirstFile
  /\ filePath' = [base |-> NextFilePath, ext |-> ".ts"]
  /\ sourceText' = content.lex
  /\ importPositions' = content.real
  /\ lazyRoutes' = content.lazy
  /\ scanPc' = "read"
  /\ importedFiles' = <<>>
  /\ UNCHANGED <<scanner, explicitDependencies>>
  /\ UNCHANGED othersThanScan


-----------------------------------------------------------------------------
(* Import scanner: the files that are scanned; in a statement's name ~ is a
   backtick *)

MaxStatements == 2    \* statements in a file of import statements
MaxBlankLines == 2    \* line breaks between a comment and the next statement

\* a piece of source text: its lexemes, which of them are the specifiers of
\* real imports, and the loadChildren strings it declares
Piece(lex, real) == [lex |-> lex, real |-> real, lazy |-> {}]
NoPiece == Piece(<<>>, {})
Join(A, B) ==
  [lex |-> A.lex \o B.lex,
   real |-> A.real \cup {Len(A.lex) + i : i \in B.real},
   lazy |-> A.lazy \cup {[fileName |-> e.fileName, pos |-> Len(A.lex) + e.pos] :
                           e \in B.lazy}]
Lines(n) == Piece([i \in 1..n |-> NewLine], {})

ImportKinds ==
  {"import 'M'", "import d from 'M'", "import {a} from 'M'",
   "import {\n a\n} from 'M'", "import * as ns from 'M'",
   "import d, {a} from 'M'", "import type {A} from 'M'",
   "import x = require('M')", "import('M')",
   "import(~M~)", "require('M')", "const a = require('M')",
   "function f() { import('M') }", "function f() { require('M') }"}
PlainKinds == {"obj.import('M')", "const a = 1", "\"import {a} from 'M'\""}
TemplateKinds ==
  {"~import {a} from 'M'~", "~${x}~", "~${x} import 'M'~",
   "~${~${x}~} require('M')~", "~${f({a})} import 'M'~",
   "~${await import('M')}~", "console.log(~@${x}~)",
   "~${import(~${x}~)} import 'M'~"}
UnterminatedKinds ==
  {"~${x~", "~import 'M'", "~${x} import 'M'", "function f() {", "import {a",
   "export {a", "define(['M'"}
ExportKinds ==
  {"export * from 'M'", "export {a} from 'M'", "declare module 'M' {}",
   "define(['M'])"}
StatementKinds == ImportKinds \cup PlainKinds \cup TemplateKinds \cup ExportKinds

Statement(kind, m) ==
  LET I == Tok("ImportKeyword")
      F == Tok("FromKeyword")
      R == Tok("RequireKeyword")
      E == Tok("ExportKeyword")
      OP == Tok("OpenParenToken")
      CP == Tok("CloseParenToken")
      OB == Tok("OpenBraceToken")
      CB == Tok("CloseBraceToken")
      EQ == Tok("EqualsToken")
      BT == Backtick
      DL == Dollar
      M == Str(m)
      x == Id("x")
      a == Id("a")
      fn == <<Tok("FunctionKeyword"), Id("f"), OP, CP, OB>>
  IN CASE kind = "import 'M'" -> Piece(<<I, M>>, {2})
       [] kind = "import d from 'M'" -> Piece(<<I, Id("d"), F, M>>, {4})
       [] kind = "import {a} from 'M'" -> Piece(<<I, OB, a, CB, F, M>>, {6})
       [] kind = "import {\n a\n} from 'M'" ->
            Piece(<<I, OB, NewLine, a, NewLine, CB, F, M>>, {8})
       [] kind = "import * as ns from 'M'" ->
            Piece(<<I, Tok("AsteriskToken"), Tok("AsKeyword"), Id("ns"), F, M>>, {6})
       [] kind = "import d, {a} from 'M'" ->
            Piece(<<I, Id("d"), Tok("CommaToken"), OB, a, CB, F, M>>, {8})
       [] kind = "import type {A} from 'M'" ->
            Piece(<<I, Tok("TypeKeyword"), OB, Id("A"), CB, F, M>>, {7})
       [] kind = "import x = require('M')" -> Piece(<<I, x, EQ, R, OP, M, CP>>, {6})
       [] kind = "import('M')" -> Piece(<<I, OP, M, CP>>, {3})
       [] kind = "import(~M~)" -> Piece(<<I, OP, BT, Id(m), BT, CP>>, {3})
       [] kind = "require('M')" -> Piece(<<R, OP, M, CP>>, {3})
       [] kind = "const a = require('M')" ->
            Piece(<<Tok("ConstKeyword"), a, EQ, R, OP, M, CP>>, {6})
       [] kind = "function f() { import('M') }" ->
            Piece(fn \o <<I, OP, M, CP, CB>>, {8})
       [] kind = "function f() { require('M') }" ->
            Piece(fn \o <<R, OP, M, CP, CB>>, {8})
       [] kind = "obj.import('M')" ->
            Piece(<<Id("obj"), Tok("DotToken"), I, OP, M, CP>>, {})
       [] kind = "const a = 1" ->
            Piece(<<Tok("ConstKeyword"), a, EQ, Tok("NumericLiteral")>>, {})
       [] kind = "\"import {a} from 'M'\"" ->
            Piece(<<Str("import {a} from '" \o m \o "'")>>, {})
       [] kind = "~import {a} from 'M'~" ->
            Piece(<<BT, I, OB, a, CB, F, M, BT>>, {})
       [] kind = "~${x}~" -> Piece(<<BT, DL, OB, x, CB, BT>>, {})
       [] kind = "~${x} import 'M'~" -> Piece(<<BT, DL, OB, x, CB, I, M, BT>>, {})
       [] kind = "~${~${x}~} require('M')~" ->
            Piece(<<BT, DL, OB, BT, DL, OB, x, CB, BT, CB, R, OP, M, CP, BT>>, {})
       [] kind = "~${f({a})} import 'M'~" ->
            Piece(<<BT, DL, OB, Id("f"), OP, OB, a, CB, CP, CB, I, M, BT>>, {})
       [] kind = "~${await import('M')}~" ->
            Piece(<<BT, DL, OB, Tok("AwaitKeyword"), I, OP, M, CP, CB, BT>>, {7})
       [] kind = "console.log(~@${x}~)" ->
            Piece(<<Id("console"), Tok("DotToken"), Id("log"), OP,
                    BT, Id("@"), DL, OB, x, CB, BT, CP>>, {})
       [] kind = "~${import(~${x}~)} import 'M'~" ->
            Piece(<<BT, DL, OB, I, OP, BT, DL, OB, x, CB, BT, CP, CB, I, M, BT>>, {})
       [] kind = "~${x~" -> Piece(<<BT, DL, OB, x, BT>>, {})
       [] kind = "~import 'M'" -> Piece(<<BT, I, M>>, {})
       [] kind = "~${x} import 'M'" -> Piece(<<BT, DL, OB, x, CB, I, M>>, {})
       [] kind = "function f() {" -> Piece(fn, {})
       [] kind = "import {a" -> Piece(<<I, OB, a>>, {})
       [] kind = "export {a" -> Piece(<<E, OB, a>>, {})
       [] kind = "define(['M'" ->
            Piece(<<Id("define"), OP, Tok("OpenBracketToken"), M>>, {4})
       [] kind = "export * from 'M'" -> Piece(<<E, Tok("AsteriskToken"), F, M>>, {4})
       [] kind = "export {a} from 'M'" -> Piece(<<E, OB, a, CB, F, M>>, {6})
       [] kind = "declare module 'M' {}" ->
            Piece(<<Tok("DeclareKeyword"), Tok("ModuleKeyword"), M, OB, CB>>, {})
       [] kind = "define(['M'])" ->
            Piece(<<Id("define"), OP, Tok("OpenBracketToken"), M,
                    Tok("CloseBracketToken"), CP>>, {4})

\* the statement and the end of its line
Line(kind, m, semicolon) ==
  Join(Statement(kind, m),
       Piece(IF semicolon THEN <<Tok("SemicolonToken"), NewLine>> ELSE <<NewLine>>, {}))

\* the import paths the statements of a file use, in order
ModuleNames ==
  {<<"@proj/proj2", "@proj/proj3a", "@proj/proj2">>,
   <<"lodash", "@proj/proj2", "@proj/proj3a">>}

\* the files of n statements
RECURSIVE Files(_, _, _)
Files(n, names, semicolon) ==
  IF n = 0 THEN {NoPiece}
  ELSE {Join(f, Line(k, names[((n - 1) % Len(names)) + 1], semicolon)) :
          f \in Files(n - 1, names, semicolon), k \in StatementKinds}

Extensions == {".ts", ".tsx", ".js", ".jsx", ".json", ".md"}

\* the task planner is not running
PlannerOff ==
  /\ projectGraph = Graph(<<>>, <<>>)
  /\ nxJson = [targetDependencies |-> NoRules]
  /\ nxArgs = [target |-> "", configuration |-> Undefined, withDeps |-> FALSE]
  /\ overrides = EmptyOverrides
  /\ projectsToRun = <<>>
  /\ initiatingProject = Null
  /\ pc = "off"
  /\ tasks = <<>>
  /\ exitCode = NoExit
  /\ outputError = NoHalt
  /\ runnerTasks = <<>>

\* the file file with the content content is about to be processed
FileToProcess(ext, content) ==
  /\ filePath = [base |-> FirstFile, ext |-> ext]
  /\ sourceText = content.lex
  /\ importPositions = content.real
  /\ lazyRoutes = content.lazy
  /\ scanner = NewScanner
  /\ scanPc = "read"
  /\ importedFiles = <<>>
  /\ explicitDependencies = <<>>
  /\ PlannerOff
  /\ TscOff
  /\ SyncOff
  /\ RunnerOff
  /\ TuiOff
  /\ RendererOff

\* files of import statements, strings and templates; a file of one statement
\* has any extension
InitStatements ==
  \E n \in 1..MaxStatements, names \in ModuleNames, semicolon \in BOOLEAN,
     ext \in Extensions :
    /\ n > 1 => ext = ".ts"
    /\ \E content \in Files(n, names, semicolon) : FileToProcess(ext, content)

\* files that end inside a template literal, a brace or an import clause
InitUnterminated ==
  \E n \in 0..1, names \in ModuleNames, semicolon \in BOOLEAN,
     kind \in UnterminatedKinds :
    \E content \in Files(n, names, semicolon) :
      FileToProcess(".ts", Join(content, Line(kind, names[n + 1], semicolon)))

CommentForms ==
  {LineComment(<<" ", "nx-ignore-next-line">>),
   LineComment(<<" ", "NX-IGNORE-NEXT-LINE">>),
   LineComment(<<" ", "nx-ignore-next-line", " ", "because">>),
   LineComment(<<" ", "todo">>),
   BlockComment(<<" ", "nx-ignore-next-line", " ">>),
   BlockComment(<<"\n", " ", "nx-ignore-next-line", "\n">>),
   BlockComment(<<"\n", " ", "Nx-Ignore-Next-Line", "\n">>)}

IgnoredKinds ==
  {"import 'M'", "import {a} from 'M'", "import {\n a\n} from 'M'",
   "import('M')", "const a = require('M')", "declare module 'M' {}"}

\* what stands above the comment
Preamble(form) ==
  CASE form = "import" -> Line("import 'M'", "@proj/proj3a", FALSE)
    [] form = "comment" ->
         Join(Piece(<<LineComment(<<" ", "nx-ignore-next-line">>)>>, {}), Lines(2))
    [] OTHER -> NoPiece

\* a comment, some line breaks, an import, perhaps another import; at top
\* level or in the body of a function
InitNxIgnore ==
  \E comment \in CommentForms, gap \in 0..MaxBlankLines, kind \in IgnoredKinds,
     above \in {"none", "import", "comment"}, nested \in BOOLEAN,
     followed \in BOOLEAN :
    /\ comment.v = "//" => gap > 0
    /\ LET open == IF nested
                   THEN Piece(<<Tok("FunctionKeyword"), Id("f"),
                                Tok("OpenParenToken"), Tok("CloseParenToken"),
                                Tok("OpenBraceToken"), NewLine>>, {})
                   ELSE NoPiece
           close == IF nested
                    THEN Piece(<<Tok("CloseBraceToken"), NewLine>>, {})
                    ELSE NoPiece
           next == IF followed THEN Line("import 'M'", "@proj/proj3a", FALSE)
                   ELSE NoPiece
           content ==
             Join(Join(Join(Join(Join(Join(Preamble(above), open),
                                      Piece(<<comment>>, {})),
                                 Lines(gap)),
                            Line(kind, "@proj/proj2", FALSE)),
                       next),
                  close)
       IN FileToProcess(".ts", content)

PropertyKeys == {Id("loadChildren"), Str("loadChildren"), Id("children")}
InitializerKinds ==
  {"'M'", "''", "~M~", "~${x}M~", "() => import('M')", "{ loadChildren: 'M' }",
   "lazy"}

\* the initializer of a property, m the import path it names
InitializerOf(kind, m) ==
  LET OP == Tok("OpenParenToken")
      CP == Tok("CloseParenToken")
      OB == Tok("OpenBraceToken")
      CB == Tok("CloseBraceToken")
  IN CASE kind = "'M'" -> Piece(<<Str(m)>>, {})
       [] kind = "''" -> Piece(<<Str("")>>, {})
       [] kind = "~M~" -> Piece(<<Backtick, Id(m), Backtick>>, {})
       [] kind = "~${x}M~" ->
            Piece(<<Backtick, Dollar, OB, Id("x"), CB, Id(m), Backtick>>, {})
       [] kind = "() => import('M')" ->
            Piece(<<OP, CP, Tok("EqualsGreaterThanToken"),
                    Tok("ImportKeyword"), OP, Str(m), CP>>, {6})
       [] kind = "{ loadChildren: 'M' }" ->
            Piece(<<OB, Id("loadChildren"), Tok("ColonToken"), Str(m), CB>>, {})
       [] kind = "lazy" -> Piece(<<Id("lazy")>>, {})

\* key: initializer, with the loadChildren string it declares when the key
\* is loadChildren and the initializer a string with content; gap is what
\* stands between the colon and the initializer
Property(key, kind, m, gap) ==
  LET declared == key.v = "loadChildren" /\ kind \in {"'M'", "~M~"}
      nested == key.v # "loadChildren" /\ kind = "{ loadChildren: 'M' }"
      head == [lex |-> <<key, Tok("ColonToken")>> \o gap,
               real |-> {},
               lazy |-> IF declared THEN {[fileName |-> m, pos |-> 3]}
                        ELSE IF nested
                        THEN {[fileName |-> m, pos |-> Len(gap) + 6]}
                        ELSE {}]
  IN Join(head, InitializerOf(kind, m))

\* what stands between the colon and the initializer
Gaps ==
  {<<>>, <<NewLine>>,
   <<NewLine, LineComment(<<" ", "nx-ignore-next-line">>), NewLine>>}

\* an object literal of one or two properties; a comment above the first
\* property, or above the statement when the literal is on the statement's line
InitLoadChildren ==
  \E key \in PropertyKeys, kind \in InitializerKinds, gap \in Gaps,
     comment \in {"none", "nx-ignore-next-line", "NX-IGNORE-NEXT-LINE"},
     place \in {"property", "statement"},
     second \in {"none", "'M'", "() => import('M')"} :
    /\ place = "statement" => (comment # "none" /\ second = "none")
    /\ LET lead == IF comment = "none" THEN NoPiece
                   ELSE Piece(<<LineComment(<<" ", comment>>), NewLine>>, {})
           const == Piece(<<Tok("ConstKeyword"), Id("routes"), Tok("EqualsToken"),
                            Tok("OpenBraceToken")>>, {})
           open == IF place = "statement" THEN Join(lead, const)
                   ELSE Join(Join(const, Lines(1)), lead)
           first == Property(key, kind, "@proj/proj4ab#a", gap)
           more == IF second = "none" THEN NoPiece
                   ELSE Join(Piece(<<Tok("CommaToken"), NewLine>>, {}),
                             Property(Id("loadChildren"), second, "@proj/proj2", <<>>))
           close == IF place = "statement"
                    THEN Piece(<<Tok("CloseBraceToken"), NewLine>>, {})
                    ELSE Piece(<<NewLine, Tok("CloseBraceToken"), NewLine>>, {})
       IN FileToProcess(".ts", Join(Join(Join(open, first), more), close))

ScanInit == InitStatements \/ InitUnterminated \/ InitNxIgnore \/ InitLoadChildren

\* the files the loop goes on to
NextKinds ==
  {"import 'M'", "import {a} from 'M'", "function f() { import('M') }",
   "~${x}~", "declare module 'M' {}", "obj.import('M')"}

ScanNext ==
  \/ ReadFile
  \/ SkipFile
  \/ ScanStep
  \/ PostProcess
  \/ EmitDependencies
  \/ \E kind \in NextKinds : NextFile(Line(kind, "@proj/proj3a", FALSE))

ScanSpec == ScanInit /\ [][ScanNext]_vars

-----------------------------------------------------------------------------
(* Import scanner: what the scan of a file is checked against *)

\* the file is a source file; its scan and the rest of preProcessFile are over
Scanned == scanPc \in {"emit", "done"} /\ extname(filePath) \in SourceExtensions

LineOf(p) == computeLineOfPosition(sourceText, p)

\* the positions the scanner recorded as imports
RecordedPositions == {f.pos : f \in Range(scanner.importedFiles)}

\* the comments of the source file whose trimmed, lower-cased text is
\* nx-ignore-next-line
NxIgnoreComments ==
  {i \in getSourceFile(sourceText) :
     /\ sourceText[i].k = "Comment"
     /\ commentTextContents(sourceText[i]) = <<NxIgnoreNextLine>>}

\* the lines that follow the line on which such a comment ends
LinesAfterNxIgnore == {LineOf(i + 1) + 1 : i \in NxIgnoreComments}

\* the ambient modules the scanner recorded
AmbientModules == {d.ref : d \in Range(scanner.ambientExternalModules)}

\* file references in the order of their positions
RECURSIVE InSourceOrder(_)
InSourceOrder(refs) ==
  IF refs = {} THEN <<>>
  ELSE LET first == CHOOSE f \in refs : \A g \in refs : f.pos <= g.pos
       IN <<first>> \o InSourceOrder(refs \ {first})

Resolves(ref) == findProjectWithImport(ref.fileName) # Null

\* the source has a template with a substitution
HasSubstitution ==
  \E i \in 1..Len(sourceText) : IsSubstitutionStart(sourceText, i)

\* the source has a loadChildren key or an ambient module declaration
HasLoadChildrenOrAmbientModule ==
  \E i \in 1..Len(sourceText) :
    \/ sourceText[i].k = "DeclareKeyword"
    \/ sourceText[i].k \in {"Identifier", "StringLiteral"} /\ sourceText[i].v = "loadChildren"

\* the dependencies of the recognised imports of the file: the recorded
\* positions preProcessFile returns, in source order, those that resolve
\* the dependencies collected for the file file
DependenciesOf(file) ==
  SelectSeq(explicitDependencies, LAMBDA d : d.sourceProjectFile = file)

C7_Expected ==
  LET resolved ==
        SelectSeq(InSourceOrder(Range(scanner.importedFiles) \cap
                                  Range(importedFiles)),
                  Resolves)
  IN [k \in 1..Len(resolved) |->
        [sourceProjectName |-> "proj",
         targetProjectName |-> findProjectWithImport(resolved[k].fileName),
         sourceProjectFile |-> filePath]]

C8_DropsExactlyTheNextLine ==
  Scanned =>
    \A f \in Range(scanner.importedFiles) :
      (f \notin Range(importedFiles)) <=> (LineOf(f.pos) \in LinesAfterNxIgnore)

\* C9: what is recorded is the specifier of a real import, never text inside a
\* string or a template; and every real import that comes after a template is
\* recorded.
C9_TemplatesNeitherAddNorHideImports ==
  Scanned =>
    /\ RecordedPositions \subseteq importPositions
    /\ \A p \in importPositions :
         (\E j \in 1..(p - 1) : sourceText[j].k = "Backtick")
           => p \in RecordedPositions

\* C10: a loadChildren property, its key an identifier or a string, whose
\* initializer is a string or a template without substitution, with content,
\* adds exactly one imported file named by that content; nothing else is added,
\* not for another initializer and not for a property under a loadChildren.
C10_LoadChildrenStringAddsOneFile ==
  (Scanned /\ \A i \in 1..Len(sourceText) : sourceText[i].k # "Comment") =>
    /\ \A e \in lazyRoutes :
         Cardinality({k \in 1..Len(importedFiles) : importedFiles[k] = e}) = 1
    /\ Range(importedFiles) \ (Range(scanner.importedFiles) \cup AmbientModules)
         \subseteq lazyRoutes

\* the comments of the source file whose trimmed text is nx-ignore-next-line
\* as the tests write it
NxIgnoreCommentsAsWritten ==
  {i \in getSourceFile(sourceText) :
     sourceText[i].k = "Comment" /\ trim(sourceText[i].c) = <<NxIgnoreNextLine>>}

\* the comment at lexeme c ends on the line before the line of lexeme i
EndsOnLineBefore(c, i) == LineOf(c + 1) + 1 = LineOf(i)

\* C11: a loadChildren string adds no imported file when an nx-ignore-next-line
\* comment ends on the line before the line of the property's key (the
\* property on one line or its string on the next line, the comment above the
\* property or above the one-line statement) or on the line before the line
\* of the string (the comment between the colon and the string).
C11_IgnoredLoadChildrenAddsNothing ==
  Scanned =>
    \A e \in lazyRoutes :
      (\E c \in NxIgnoreCommentsAsWritten :
         \/ EndsOnLineBefore(c, e.pos - 2)
         \/ EndsOnLineBefore(c, SkipTrivia(sourceText, e.pos)))
        => e \notin Range(importedFiles)

\* what is open at the end of the text from lexeme i on: templates "T",
\* substitutions "E", braces, parentheses and brackets "B"
RECURSIVE OpenAtEnd(_, _, _)
OpenAtEnd(text, i, stack) ==
  IF i > Len(text) THEN stack
  ELSE IF InTemplateText(stack)
  THEN IF text[i].k = "Backtick" THEN OpenAtEnd(text, i + 1, Pop(stack))
       ELSE IF IsSubstitutionStart(text, i)
       THEN OpenAtEnd(text, i + 2, Append(stack, "E"))
       ELSE OpenAtEnd(text, i + 1, stack)
  ELSE IF text[i].k = "Backtick" THEN OpenAtEnd(text, i + 1, Append(stack, "T"))
  ELSE OpenAtEnd(text, i + 1,
                 IF IsOpener(text[i]) THEN Append(stack, "B")
                 ELSE IF IsCloser(text[i]) /\ stack # <<>> THEN Pop(stack)
                 ELSE stack)

\* the source has a template literal that is not terminated
HasUnterminatedTemplate ==
  \E k \in 1..Len(OpenAtEnd(sourceText, 1, <<>>)) :
    OpenAtEnd(sourceText, 1, <<>>)[k] = "T"

\* C12: a file with an unterminated template literal is skipped: it adds no
\* imported file and no dependency.
C12_UnterminatedTemplateFileIsSkipped ==
  (Scanned /\ HasUnterminatedTemplate) =>
    (importedFiles = <<>> /\ DependenciesOf(filePath) = <<>>)

\* processImports run to the end of the text
RECURSIVE processImports(_)
processImports(S) ==
  IF S.token = "EndOfFileToken" THEN S ELSE processImports(processImportsStep(S))

\* what a preProcessFile instance that has scanned nothing returns for the text
FreshResult ==
  preProcessFile(sourceText, processImports(nextToken(NewScanner)))

MaxRuns == 2

\* raw values of the options typecheck and build
NotGiven == [kind |-> "undefined", value |-> FALSE, targetName |-> Undefined, configName |-> Undefined]
Boolean(b) == [kind |-> "boolean", value |-> b, targetName |-> Undefined, configName |-> Undefined]
Object(targetName, configName) == [kind |-> "object", value |-> TRUE, targetName |-> targetName, configName |-> configName]

\* the options of the plugin as nx.json gives them; given is FALSE when the
\* plugin is listed by its name only
TscPluginOptions(typecheck, build) == [given |-> TRUE, typecheck |-> typecheck, build |-> build]
NoPluginOptions == [given |-> FALSE, typecheck |-> NotGiven, build |-> NotGiven]

PluginOptions ==
  { TscPluginOptions(NotGiven, NotGiven),
    TscPluginOptions(Boolean(FALSE), NotGiven),
    TscPluginOptions(Boolean(TRUE), Boolean(TRUE)),
    TscPluginOptions(NotGiven, Object(Undefined, Undefined)),
    TscPluginOptions(Boolean(FALSE), Object(Undefined, "tsconfig.build.json")),
    TscPluginOptions(Object("tc", Undefined), Object("build", "tsconfig.build.json")) }

\* a ?? b
Coalesce(a, b) == IF a = Undefined THEN b ELSE a

Disabled == [enabled |-> FALSE, targetName |-> Undefined, configName |-> Undefined]
Enabled(targetName, configName) == [enabled |-> TRUE, targetName |-> targetName, configName |-> configName]

normalizeTypecheck(typecheck) ==
  IF typecheck.kind = "boolean" /\ ~typecheck.value THEN Disabled
  ELSE IF typecheck.kind = "object"
       THEN Enabled(Coalesce(typecheck.targetName, "typecheck"), Undefined)
       ELSE Enabled("typecheck", Undefined)

\* the target name of a build object defaults to the name of the typecheck
\* target, as the source has it
normalizeBuild(build) ==
  IF build.kind = "undefined" \/ (build.kind = "boolean" /\ ~build.value) THEN Disabled
  ELSE IF build.kind = "object"
       THEN Enabled(Coalesce(build.targetName, "typecheck"),
                    Coalesce(build.configName, "tsconfig.lib.json"))
       ELSE Enabled("build", "tsconfig.lib.json")

normalizePluginOptions(pluginOptions) ==
  [typecheck |-> normalizeTypecheck(pluginOptions.typecheck),
   build |-> normalizeBuild(pluginOptions.build)]

\* one target configuration
Target(targetName, command, projectRoot) ==
  [dependsOn |-> <<"^", targetName>>, command |-> command, cwd |-> projectRoot, cache |-> TRUE]

NoTargets == <<>>

typecheckTarget(projectRoot, options) ==
  IF options.typecheck.enabled
  THEN options.typecheck.targetName :>
         Target(options.typecheck.targetName,
                <<"tsc", "--build", "--pretty", "--verbose">>, projectRoot)
  ELSE NoTargets

buildTarget(targets, projectRoot, options) ==
  IF options.build.enabled /\ options.build.targetName \notin DOMAIN targets
  THEN targets @@
       (options.build.targetName :>
          Target(options.build.targetName,
                 <<"tsc", "-b", options.build.configName, "--pretty", "--verbose">>,
                 projectRoot))
  ELSE targets

buildTscTargets(configFilePath, projectRoot, options) ==
  buildTarget(typecheckTarget(projectRoot, options), projectRoot, options)

\* the files of the workspace that match **/tsconfig*.json
ConfigFile(dir, file) == [dir |-> dir, file |-> file]

ConfigFiles ==
  { ConfigFile(".", "tsconfig.json"),
    ConfigFile("packages/a", "tsconfig.json"),
    ConfigFile("packages/a", "tsconfig.lib.json"),
    ConfigFile("packages/b", "tsconfig.json"),
    ConfigFile("tools", "tsconfig.json") }

dirname(configFilePath) == configFilePath.dir

readdirSync(dir) ==
  CASE dir = "packages/a" -> {"package.json", "tsconfig.json", "tsconfig.lib.json"}
    [] dir = "packages/b" -> {"project.json", "tsconfig.json", "src"}
    [] dir = "tools" -> {"tsconfig.json", "scripts"}
    [] OTHER -> {"nx.json", "package.json", "tsconfig.json"}

LockFiles == {"package-lock.json", "yarn.lock"}

\* the fingerprint: project root, normalized options and the lock file
calculateHashForCreateNodes(projectRoot, pluginOptions, lockFile) ==
  [projectRoot |-> projectRoot, options |-> pluginOptions, lockFile |-> lockFile]

\* writeJsonFile(cachePath, targets), and a write that never happens
keepTargetsCache(file, targets) == file
writeTargetsToCache(file, targets) == [exists |-> TRUE, content |-> targets]

readTargetsCache(file) == file.content

\* targetsCache[hash] ? targetsCache[hash] : buildTscTargets(...)
CachedOrBuilt(cache, hash, configFilePath, projectRoot, pluginOptions) ==
  IF hash \in DOMAIN cache
  THEN cache[hash]
  ELSE buildTscTargets(configFilePath, projectRoot, pluginOptions)

NoResult == [kind |-> "none"]
Threw == [kind |-> "threw"]
EmptyResult == [kind |-> "empty"]
ProjectsResult(configFilePath, projectRoot, hash, targets) ==
  [kind |-> "projects", configFilePath |-> configFilePath, projectRoot |-> projectRoot,
   projectType |-> "library", hash |-> hash, targets |-> targets]

\* the plugin module is loaded at the start of a run: the cache is read
\* from disk when the file is there, and nothing is calculated yet
LoadPlugin(options, lockFile) ==
  /\ tscRun.pc \in {"start", "written"}
  /\ tscRun.run < MaxRuns
  /\ targetsCache' = IF tscCacheFile.exists THEN readTargetsCache(tscCacheFile) ELSE <<>>
  /\ calculatedTargets' = <<>>
  /\ createNodesResult' = NoResult
  /\ tscRun' = [pc |-> "nodes", run |-> tscRun.run + 1, options |-> options,
                lockFile |-> lockFile, returned |-> {}]
  /\ UNCHANGED tscCacheFile
  /\ UNCHANGED othersThanTsc

createNodesFor(configFilePath, projectRoot, hash) ==
  /\ createNodesResult' =
       ProjectsResult(configFilePath, projectRoot, hash,
                CachedOrBuilt(targetsCache, hash, configFilePath, projectRoot,
                              normalizePluginOptions(tscRun.options)))
  /\ calculatedTargets' = (hash :> createNodesResult'.targets) @@ calculatedTargets
  /\ tscRun' = [tscRun EXCEPT !.returned = @ \cup {<<hash, createNodesResult'.targets>>}]

createNodes(configFilePath) ==
  /\ tscRun.pc = "nodes"
  /\ IF ~tscRun.options.given
     THEN \* reading a property of undefined throws
          /\ createNodesResult' = Threw
          /\ UNCHANGED <<calculatedTargets, tscRun>>
     ELSE IF dirname(configFilePath) = "."
             \/ {"package.json", "project.json"} \cap readdirSync(dirname(configFilePath)) = {}
     THEN /\ createNodesResult' = EmptyResult
          /\ UNCHANGED <<calculatedTargets, tscRun>>
     ELSE createNodesFor(configFilePath, dirname(configFilePath),
                         calculateHashForCreateNodes(dirname(configFilePath),
                                                     normalizePluginOptions(tscRun.options),
                                                     tscRun.lockFile))
  /\ UNCHANGED <<tscCacheFile, targetsCache>>
  /\ UNCHANGED othersThanTsc

createDependencies ==
  /\ tscRun.pc = "nodes"
  /\ tscCacheFile' = writeTargetsToCache(tscCacheFile, calculatedTargets)
  /\ tscRun' = [tscRun EXCEPT !.pc = "written"]
  /\ UNCHANGED <<targetsCache, calculatedTargets, createNodesResult>>
  /\ UNCHANGED othersThanTsc

TscInit ==
  /\ tscCacheFile = [exists |-> FALSE, content |-> <<>>]
  /\ targetsCache = <<>>
  /\ calculatedTargets = <<>>
  /\ createNodesResult = NoResult
  /\ tscRun = [pc |-> "start", run |-> 0, options |-> NoPluginOptions,
               lockFile |-> "package-lock.json", returned |-> {}]
  /\ PlannerOff
  /\ ScanOff
  /\ SyncOff
  /\ RunnerOff
  /\ TuiOff
  /\ RendererOff

TscNext ==
  \/ \E options \in PluginOptions \cup {NoPluginOptions}, lockFile \in LockFiles :
       LoadPlugin(options, lockFile)
  \/ \E configFilePath \in ConfigFiles : createNodes(configFilePath)
  \/ createDependencies

TscSpec == TscInit /\ [][TscNext]_vars

\* C14: whenever createNodes returns a project, its targets are the ones
\* buildTscTargets yields for the project root and the normalized options of
\* the run, and they are the cached ones when the cache read from disk has
\* the hash; once createDependencies has run, the cache on disk maps every
\* hash computed during the run to the targets returned for it.
C14_CacheIsCoherent ==
  /\ createNodesResult.kind = "projects" =>
       /\ createNodesResult.targets =
            buildTscTargets(createNodesResult.configFilePath,
                            dirname(createNodesResult.configFilePath),
                            normalizePluginOptions(tscRun.options))
       /\ createNodesResult.hash \in DOMAIN targetsCache =>
            createNodesResult.targets = targetsCache[createNodesResult.hash]
  /\ tscRun.pc = "written" =>
       /\ tscCacheFile.exists
       /\ \A r \in tscRun.returned :
            /\ r[1] \in DOMAIN tscCacheFile.content
            /\ tscCacheFile.content[r[1]] = r[2]

\* the second run has written the cache after a project with two targets
\* was answered from the cache the first run left on disk
C14_Witness ==
  /\ tscRun.pc = "written"
  /\ tscRun.run = MaxRuns
  /\ createNodesResult.kind = "projects"
  /\ createNodesResult.hash \in DOMAIN targetsCache
  /\ Cardinality(DOMAIN createNodesResult.targets) = 2
  /\ Cardinality(tscRun.returned) = 2


(***************************************************************************)
(* The tsconfig sync generators (packages/tsc and packages/js)             *)
(***************************************************************************)

MaxSyncRuns == 2

\* ---- paths: a path is the sequence of its segments

RECURSIVE normalizeInto(_, _)
normalizeInto(done, rest) ==
  IF rest = <<>> THEN done
  ELSE IF Head(rest) = "." THEN normalizeInto(done, Tail(rest))
  ELSE IF Head(rest) = ".." /\ done # <<>> /\ done[Len(done)] # ".."
       THEN normalizeInto(SubSeq(done, 1, Len(done) - 1), Tail(rest))
       ELSE normalizeInto(Append(done, Head(rest)), Tail(rest))

normalize(path) == normalizeInto(<<>>, path)

joinPathFragments(a, b) == normalize(a \o b)

RECURSIVE CommonPrefix(_, _)
CommonPrefix(a, b) ==
  IF a # <<>> /\ b # <<>> /\ Head(a) = Head(b)
  THEN 1 + CommonPrefix(Tail(a), Tail(b))
  ELSE 0

Ups(n) == [i \in 1..n |-> ".."]

\* path.relative(from, to): up from what is left of from, down what is
\* left of to
relativeOf(from, to, common) ==
  Ups(Len(from) - common) \o SubSeq(to, common + 1, Len(to))

relative(from, to) ==
  relativeOf(normalize(from), normalize(to), CommonPrefix(normalize(from), normalize(to)))

TreeRoot == <<"/virtual">>

\* ---- the tree: the files that exist, with the JSON they hold

Tsconfig(references, paths, rootDir, outDir) ==
  [references |-> references, paths |-> paths, rootDir |-> rootDir, outDir |-> outDir]

EmptyJson == Tsconfig(<<>>, <<>>, <<>>, <<>>)

Reference(path) == [path |-> path]

exists(t, path) == path \in DOMAIN t

writeJson(t, path, json) == (path :> json) @@ t

\* ---- nx.json and the project graph

TscPluginName == "@nx/tsc"
JsPluginName == "@nx/js/typescript"

PluginString(name) == [form |-> "string", plugin |-> name, options |-> NoPluginOptions]
PluginObject(name, options) == [form |-> "object", plugin |-> name, options |-> options]

PLUGIN_NAME(variant) == IF variant = "tsc" THEN TscPluginName ELSE JsPluginName

\* a match of every entry, and the match of the source
IsAnyPlugin(p, name) == TRUE
IsPlugin(p, name) == p.plugin = name

RECURSIVE find(_, _)
find(plugins, name) ==
  IF plugins = <<>> THEN <<>>
  ELSE IF IsPlugin(Head(plugins), name) THEN <<Head(plugins)>>
  ELSE find(Tail(plugins), name)

\* tscPluginConfig.options || {}, and {} for the string form
OptionsOf(tscPluginConfig) ==
  IF tscPluginConfig.form = "string" \/ ~tscPluginConfig.options.given
  THEN TscPluginOptions(NotGiven, NotGiven)
  ELSE tscPluginConfig.options

NpmNames == {"npm:x"}
startsWithNpm(name) == name \in NpmNames

ProjectNode(name, root, sourceRoot) == [name |-> name, root |-> root, sourceRoot |-> sourceRoot]
Dependencies(name, data) == [name |-> name, data |-> data]
Dependency(source, target) == [type |-> "static", source |-> source, target |-> target]

firstPartyDeps(dependencies) ==
  SelectSeq(dependencies, LAMBDA e : ~startsWithNpm(e.name) /\ Len(e.data) > 0)

HasNode(nodes, name) == \E i \in 1..Len(nodes) : nodes[i].name = name
NodeOf(nodes, name) == nodes[CHOOSE i \in 1..Len(nodes) : nodes[i].name = name]

\* ---- the outcome of a call

NoError == "none"
PluginMissing == "must be added to the plugins array in nx.json before syncing tsconfigs"
TypeError == "TypeError"
CannotRead == "Cannot read file"
NoOutDir == "does not have an outDir set"

\* ---- root tsconfig.json

tsconfigProjectNodeValues(nodes, t) ==
  SelectSeq(nodes, LAMBDA node : exists(t, joinPathFragments(node.root, <<"tsconfig.json">>)))

referencesSet(references) == { references[i].path : i \in 1..Len(references) }

RECURSIVE pushMissing(_, _, _)
pushMissing(references, seen, nodes) ==
  IF nodes = <<>> THEN references
  ELSE pushMissing(IF Head(nodes).root \notin seen
                   THEN Append(references, Reference(Head(nodes).root))
                   ELSE references,
                   seen, Tail(nodes))

\* references rebuilt from the nodes, dropping what was there
replaceRootReferences(rootTsconfig, nodes) ==
  [rootTsconfig EXCEPT !.references = pushMissing(<<>>, {}, nodes)]

syncRootReferences(rootTsconfig, nodes) ==
  [rootTsconfig EXCEPT
     !.references = pushMissing(@, referencesSet(@), nodes)]

\* ---- one dependency of one project

\* what the loop over the dependencies carries: the source tsconfig in
\* memory, the tree, and the error thrown, if any
Loop(sourceTsconfig, t, error) == [sourceTsconfig |-> sourceTsconfig, tree |-> t, error |-> error]
Throw(L, error) == [L EXCEPT !.error = error]

some(references, path) == \E i \in 1..Len(references) : references[i].path = path

\* an unshift without the test for a reference that is there
unshiftAlways(sourceTsconfig, path) ==
  [sourceTsconfig EXCEPT !.references = <<Reference(path)>> \o @]

unshiftReference(sourceTsconfig, path) ==
  IF some(sourceTsconfig.references, path)
  THEN sourceTsconfig
  ELSE [sourceTsconfig EXCEPT !.references = <<Reference(path)>> \o @]

\* a || b || c ? x : y  parses as  (a || b || c) ? x : y
targetSourceRoot(target, targetTsconfig, targetHasSrcDir) ==
  IF target.sourceRoot # <<>> \/ targetTsconfig.rootDir # <<>> \/ targetHasSrcDir
  THEN joinPathFragments(target.root, <<"src">>)
  ELSE target.root

setPath(json, key, value) == [json EXCEPT !.paths = (key :> <<value>>) @@ @]

setSourcePaths(sourceTsconfig, dep, relativePathToTargetSourceRoot) ==
  setPath(setPath(sourceTsconfig, <<dep.target>>,
                  relativePathToTargetSourceRoot \o <<"index.ts">>),
          <<dep.target, "*">>, relativePathToTargetSourceRoot \o <<"*">>)

relativePathToTargetOutDir(sourceProjectBuildTsconfigPath, targetTsconfigLibPath, targetOutDir) ==
  relative(joinPathFragments(TreeRoot, sourceProjectBuildTsconfigPath),
           joinPathFragments(TreeRoot, targetTsconfigLibPath \o targetOutDir))

syncBuildTsconfig(L, source, target, dep, buildPath, libPath) ==
  IF ~exists(L.tree, buildPath) THEN L
  ELSE IF L.tree[libPath].outDir = <<>> THEN Throw(L, NoOutDir)
  ELSE [L EXCEPT !.tree =
          writeJson(@, buildPath,
                    setPath(L.tree[buildPath], <<dep.target>>,
                            relativePathToTargetOutDir(buildPath, libPath,
                                                       L.tree[libPath].outDir)))]

syncPaths(L, source, target, dep, pluginOptions) ==
  IF ~exists(L.tree, joinPathFragments(target.root, <<"tsconfig.json">>))
     \/ ~exists(L.tree, joinPathFragments(target.root, <<"tsconfig.lib.json">>))
  THEN Throw(L, CannotRead)
  ELSE IF pluginOptions.build.enabled
  THEN syncBuildTsconfig(
         [L EXCEPT !.sourceTsconfig =
            setSourcePaths(@, dep,
              relative(source.root,
                       targetSourceRoot(target,
                         L.tree[joinPathFragments(target.root, <<"tsconfig.json">>)],
                         exists(L.tree, joinPathFragments(target.root, <<"src">>)))))],
         source, target, dep,
         joinPathFragments(source.root, <<pluginOptions.build.configName>>),
         joinPathFragments(target.root, <<"tsconfig.lib.json">>))
  ELSE [L EXCEPT !.sourceTsconfig =
            setSourcePaths(@, dep,
              relative(source.root,
                       targetSourceRoot(target,
                         L.tree[joinPathFragments(target.root, <<"tsconfig.json">>)],
                         exists(L.tree, joinPathFragments(target.root, <<"src">>)))))]

syncReference(L, source, target) ==
  [L EXCEPT !.sourceTsconfig = unshiftReference(@, relative(source.root, target.root))]

\* the body of the loop over the dependencies, of packages/tsc and of
\* packages/js
syncDependency(L, S, source, dep) ==
  IF S.variant = "js"
  THEN IF ~HasNode(S.nodes, dep.target) THEN L
       ELSE syncReference(L, source, NodeOf(S.nodes, dep.target))
  ELSE IF ~HasNode(S.nodes, dep.target) THEN Throw(L, TypeError)
       ELSE syncPaths(syncReference(L, source, NodeOf(S.nodes, dep.target)),
                      source, NodeOf(S.nodes, dep.target), dep, S.pluginOptions)

RECURSIVE forEachDep(_, _, _, _)
forEachDep(L, S, source, data) ==
  IF data = <<>> \/ L.error # NoError THEN L
  ELSE forEachDep(syncDependency(L, S, source, Head(data)), S, source, Tail(data))

\* writeJson(tree, sourceProjectTsconfigPath, sourceTsconfig) once the loop
\* is through
writeSource(L, path) ==
  IF L.error # NoError THEN L
  ELSE [L EXCEPT !.tree = writeJson(@, path, L.sourceTsconfig)]

syncProject(t, S, source, data) ==
  IF ~exists(t, joinPathFragments(source.root, <<"tsconfig.json">>))
  THEN Loop(EmptyJson, t, CannotRead)
  ELSE writeSource(
         forEachDep(Loop(t[joinPathFragments(source.root, <<"tsconfig.json">>)], t, NoError),
                    S, source, data),
         joinPathFragments(source.root, <<"tsconfig.json">>))

\* ---- the steps of syncGenerator

Reject(error) ==
  sync' = [sync EXCEPT !.pc = "rejected", !.error = error, !.run = @ + 1,
                       !.before = tree, !.i = 1]

Accept(tscPluginConfig) ==
  sync' = [sync EXCEPT !.pc = "root", !.error = NoError, !.run = @ + 1,
                       !.before = tree, !.i = 1,
                       !.pluginOptions = normalizePluginOptions(OptionsOf(tscPluginConfig))]

\* the call starts: nx.json is read and the plugin is looked up
FindPlugin ==
  /\ sync.pc \in {"start", "done"}
  /\ sync.run < MaxSyncRuns
  /\ IF ~sync.hasPlugins THEN Reject(TypeError)
     ELSE IF find(sync.plugins, PLUGIN_NAME(sync.variant)) = <<>> THEN Reject(PluginMissing)
     ELSE Accept(find(sync.plugins, PLUGIN_NAME(sync.variant))[1])
  /\ UNCHANGED tree
  /\ UNCHANGED othersThanSync

RootTsconfigPath == <<"tsconfig.json">>

SyncRootTsconfig ==
  /\ sync.pc = "root"
  /\ tree' = IF tsconfigProjectNodeValues(sync.nodes, tree) # <<>>
             THEN writeJson(tree, RootTsconfigPath,
                            syncRootReferences(tree[RootTsconfigPath],
                                               tsconfigProjectNodeValues(sync.nodes, tree)))
             ELSE tree
  /\ sync' = [sync EXCEPT !.pc = "projects"]
  /\ UNCHANGED othersThanSync

AfterProject(L) ==
  /\ tree' = L.tree
  /\ sync' = IF L.error # NoError
             THEN [sync EXCEPT !.pc = "rejected", !.error = L.error]
             ELSE [sync EXCEPT !.i = @ + 1]

\* one round of the loop over firstPartyDeps
SyncProjectTsconfig ==
  /\ sync.pc = "projects"
  /\ sync.i <= Len(firstPartyDeps(sync.dependencies))
  /\ AfterProject(syncProject(tree, sync,
                              NodeOf(sync.nodes, firstPartyDeps(sync.dependencies)[sync.i].name),
                              firstPartyDeps(sync.dependencies)[sync.i].data))
  /\ UNCHANGED othersThanSync

\* formatFiles(tree) leaves the JSON values as they are
FormatFiles ==
  /\ sync.pc = "projects"
  /\ sync.i > Len(firstPartyDeps(sync.dependencies))
  /\ sync' = [sync EXCEPT !.pc = "done"]
  /\ UNCHANGED tree
  /\ UNCHANGED othersThanSync

SyncNext == FindPlugin \/ SyncRootTsconfig \/ SyncProjectTsconfig \/ FormatFiles

\* ---- the workspaces the generator is run on

RootA == <<"packages", "a">>
RootB == <<"packages", "b">>
RootC == <<"libs", "x", "c">>

File(path, json) == path :> json
NoFile == <<>>

RootReferences ==
  { <<>>,
    <<Reference(RootA)>>,
    <<Reference(RootB), Reference(RootA), Reference(<<"packages", "c">>)>> }

ProjectReferences ==
  { <<>>,
    <<Reference(<<"..", "some", "thing">>), Reference(<<"..", "..", "another", "one">>)>>,
    <<Reference(<<"..", "some", "thing">>), Reference(<<"..", "a">>)>> }

ProjectPaths ==
  { <<>>,
    <<"@my-scope/thing">> :> <<(<<"..", "some", "thing">>)>>,
    (<<"a">> :> <<(<<"stale">>)>>) @@ (<<"@my-scope/thing">> :> <<(<<"..", "some", "thing">>)>>) }

DependencyLists ==
  { <<>>,
    <<Dependency("b", "a")>>,
    <<Dependency("b", "a"), Dependency("b", "c")>>,
    <<Dependency("b", "a"), Dependency("b", "a")>>,
    <<Dependency("b", "npm:x"), Dependency("b", "a")>> }

SourceRoots == { <<>>, RootA \o <<"src">>, RootA \o <<"lib">> }
RootDirs == { <<>>, <<"src">> }
OutDirs == { <<>>, <<"..", "..", "dist", "packages", "a", "lib">>, <<"dist">> }

PluginLists(variant) ==
  { <<PluginString(PLUGIN_NAME(variant))>>,
    <<PluginString("@nx/eslint"), PluginObject(PLUGIN_NAME(variant), NoPluginOptions)>>,
    <<PluginObject(PLUGIN_NAME(variant), TscPluginOptions(NotGiven, Boolean(FALSE)))>>,
    <<PluginObject(PLUGIN_NAME(variant), TscPluginOptions(NotGiven, Boolean(TRUE)))>>,
    <<PluginObject(PLUGIN_NAME(variant), TscPluginOptions(NotGiven, Object("build", "tsconfig.lib.json")))>>,
    <<PluginObject(PLUGIN_NAME(variant), TscPluginOptions(NotGiven, Object("build", "tsconfig.something-else.json")))>> }

ListsWithoutPlugin ==
  { <<>>,
    <<PluginString("@nx/eslint")>>,
    <<PluginObject("@nx/eslint", NoPluginOptions), PluginString("@nx/jest")>> }

Variants == {"tsc", "js"}

Nodes(sourceRootOfA) ==
  <<ProjectNode("a", RootA, sourceRootOfA), ProjectNode("b", RootB, <<>>),
    ProjectNode("c", RootC, <<>>)>>

Graph3(dataOfB, cDependsOnA) ==
  <<Dependencies("a", <<>>), Dependencies("b", dataOfB),
    Dependencies("c", IF cDependsOnA THEN <<Dependency("c", "a")>> ELSE <<>>),
    Dependencies("npm:x", <<>>)>>

Workspace(rootReferences, jsonOfA, libOfA, aHasSrc, jsonOfB, bHasLib, libOfB, cHasTsconfig) ==
  File(RootTsconfigPath, Tsconfig(rootReferences, <<>>, <<>>, <<>>))
  @@ File(RootA \o <<"tsconfig.json">>, jsonOfA)
  @@ File(RootA \o <<"tsconfig.lib.json">>, libOfA)
  @@ (IF aHasSrc THEN File(RootA \o <<"src">>, EmptyJson) ELSE NoFile)
  @@ File(RootB \o <<"tsconfig.json">>, jsonOfB)
  @@ (IF bHasLib THEN File(RootB \o <<"tsconfig.lib.json">>, libOfB) ELSE NoFile)
  @@ (IF cHasTsconfig
      THEN File(RootC \o <<"tsconfig.json">>, EmptyJson)
           @@ File(RootC \o <<"tsconfig.lib.json">>, EmptyJson)
      ELSE NoFile)

OthersOffForSync ==
  PlannerOff /\ ScanOff /\ TscOff /\ RunnerOff /\ TuiOff /\ RendererOff

SyncStart(variant, hasPlugins, plugins, nodes, dependencies, t) ==
  /\ tree = t
  /\ sync = [pc |-> "start", variant |-> variant, run |-> 0, hasPlugins |-> hasPlugins,
             plugins |-> plugins, nodes |-> nodes, dependencies |-> dependencies,
             pluginOptions |-> normalizePluginOptions(TscPluginOptions(NotGiven, NotGiven)),
             i |-> 1, error |-> NoError, before |-> t, initial |-> t]
  /\ OthersOffForSync

\* references in the root and in the project, over the dependency lists
InitReferences ==
  \E variant \in Variants, rootReferences \in RootReferences,
     references \in ProjectReferences, dataOfB \in DependencyLists,
     cDependsOnA \in BOOLEAN, cHasTsconfig \in BOOLEAN :
    SyncStart(variant, TRUE, <<PluginString(PLUGIN_NAME(variant))>>, Nodes(<<>>),
              Graph3(dataOfB, cDependsOnA),
              Workspace(rootReferences, EmptyJson,
                        Tsconfig(<<>>, <<>>, <<>>, <<"..", "..", "dist", "packages", "a", "lib">>),
                        FALSE, Tsconfig(references, <<>>, <<>>, <<>>), TRUE, EmptyJson,
                        cHasTsconfig))

\* path mappings, over the places the sources of a dependency can be in
InitPaths ==
  \E sourceRootOfA \in SourceRoots, rootDir \in RootDirs, aHasSrc \in BOOLEAN,
     paths \in ProjectPaths, dataOfB \in DependencyLists :
    SyncStart("tsc", TRUE, <<PluginString(TscPluginName)>>, Nodes(sourceRootOfA),
              Graph3(dataOfB, FALSE),
              Workspace(<<>>, Tsconfig(<<>>, <<>>, rootDir, <<>>),
                        Tsconfig(<<>>, <<>>, <<>>, <<"..", "..", "dist", "packages", "a", "lib">>),
                        aHasSrc, Tsconfig(<<>>, paths, <<>>, <<>>), TRUE, EmptyJson, TRUE))

\* build tsconfigs, over the forms of the plugin entry
InitBuild ==
  \E plugins \in PluginLists("tsc"), outDir \in OutDirs, bHasLib \in BOOLEAN,
     paths \in ProjectPaths, dataOfB \in DependencyLists :
    SyncStart("tsc", TRUE, plugins, Nodes(<<>>), Graph3(dataOfB, FALSE),
              Workspace(<<>>, EmptyJson, Tsconfig(<<>>, <<>>, <<>>, outDir), FALSE,
                        EmptyJson, bHasLib, Tsconfig(<<>>, paths, <<>>, <<>>), TRUE))

\* nx.json without the plugin, or without a plugins array
InitWithoutPlugin ==
  \E variant \in Variants, hasPlugins \in BOOLEAN, plugins \in ListsWithoutPlugin,
     rootReferences \in RootReferences, references \in ProjectReferences :
    /\ ~hasPlugins => plugins = <<>>
    /\ SyncStart(variant, hasPlugins, plugins, Nodes(<<>>),
                 Graph3(<<Dependency("b", "a")>>, FALSE),
                 Workspace(rootReferences, EmptyJson, EmptyJson, FALSE,
                           Tsconfig(references, <<>>, <<>>, <<>>), TRUE, EmptyJson, TRUE))

SyncInit == InitReferences \/ InitPaths \/ InitBuild \/ InitWithoutPlugin

SyncSpec == SyncInit /\ [][SyncNext]_vars


(***************************************************************************)
(* Claims about the sync generators                                        *)
(***************************************************************************)

\* the plugin was found and the root tsconfig.json has been handled
RootSynced ==
  \/ sync.pc \in {"projects", "done"}
  \/ sync.pc = "rejected" /\ sync.error \in {CannotRead, NoOutDir}
  \/ sync.pc = "rejected" /\ sync.error = TypeError /\ sync.hasPlugins

PathsOf(references) == { references[i].path : i \in 1..Len(references) }

RootReferencesBefore == sync.before[RootTsconfigPath].references
RootReferencesAfter == tree[RootTsconfigPath].references

\* the roots of the nodes with a tsconfig.json that the root tsconfig.json
\* did not reference
UnreferencedRoots ==
  { sync.nodes[i].root : i \in { j \in 1..Len(sync.nodes) :
        /\ (sync.nodes[j].root \o <<"tsconfig.json">>) \in DOMAIN sync.before
        /\ sync.nodes[j].root \notin PathsOf(RootReferencesBefore) } }

Appended(before, after) == SubSeq(after, Len(before) + 1, Len(after))

\* C15: after syncGenerator the references of the root tsconfig.json are
\* the references it had, unchanged and in their order, followed by one
\* entry for each node with a tsconfig.json whose root was not referenced:
\* nothing is appended twice and nothing that was there is appended.
C15_RootReferencesKeptAndAppendedOnce ==
  RootSynced =>
    /\ Len(RootReferencesAfter) >= Len(RootReferencesBefore)
    /\ SubSeq(RootReferencesAfter, 1, Len(RootReferencesBefore)) = RootReferencesBefore
    /\ PathsOf(Appended(RootReferencesBefore, RootReferencesAfter)) = UnreferencedRoots
    /\ Len(Appended(RootReferencesBefore, RootReferencesAfter)) = Cardinality(UnreferencedRoots)

\* a first call is through: a root tsconfig.json that referenced b, a and
\* the missing packages/c got the reference to libs/x/c behind them
C15_Witness ==
  /\ sync.pc = "done"
  /\ sync.run = 1
  /\ Len(RootReferencesBefore) = 3
  /\ <<"packages", "c">> \in PathsOf(RootReferencesBefore)
  /\ Appended(RootReferencesBefore, RootReferencesAfter) = <<Reference(RootC)>>


\* the call is over, and it got past the lookup of the plugin
CallOver ==
  /\ sync.pc \in {"done", "rejected"}
  /\ sync.error # PluginMissing
  /\ sync.hasPlugins

FirstParty == { sync.nodes[i].name : i \in 1..Len(sync.nodes) }

DataOf(name) ==
  sync.dependencies[CHOOSE i \in 1..Len(sync.dependencies) : sync.dependencies[i].name = name].data

\* the first-party projects a project depends on
FirstPartyTargets(name) ==
  { DataOf(name)[i].target : i \in 1..Len(DataOf(name)) } \cap FirstParty

RootOf(name) == NodeOf(sync.nodes, name).root

TsconfigPathOf(name) == RootOf(name) \o <<"tsconfig.json">>

\* the projects the claims are about: first-party, with a tsconfig.json
\* and at least one first-party dependency
Dependents ==
  { name \in FirstParty :
      /\ FirstPartyTargets(name) # {}
      /\ TsconfigPathOf(name) \in DOMAIN sync.before }

\* from the root of one project to the root of another, both at depth two
\* or three below the workspace root
PathBetween(from, to) ==
  Ups(Len(from) - CommonPrefix(from, to)) \o SubSeq(to, CommonPrefix(from, to) + 1, Len(to))

DependencyPaths(name) == { PathBetween(RootOf(name), RootOf(t)) : t \in FirstPartyTargets(name) }

Occurrences(references, path) == Cardinality({ i \in 1..Len(references) : references[i].path = path })

ReferencesBefore(name) == sync.before[TsconfigPathOf(name)].references
ReferencesAfter(name) == tree[TsconfigPathOf(name)].references

\* the references that were there, in their order, are the tail of the
\* references after the call
KeptBehind(before, after) ==
  /\ Len(after) >= Len(before)
  /\ SubSeq(after, Len(after) - Len(before) + 1, Len(after)) = before

\* C16: after syncGenerator the tsconfig.json of every first-party project
\* with a first-party dependency references the relative path to the root
\* of each dependency exactly once; the references it had keep their order
\* and stand behind the added ones, and a reference it had is not added.
C16_ProjectReferencesSynced ==
  CallOver =>
    \A name \in Dependents :
      /\ \A path \in DependencyPaths(name) : Occurrences(ReferencesAfter(name), path) = 1
      /\ KeptBehind(ReferencesBefore(name), ReferencesAfter(name))
      /\ PathsOf(SubSeq(ReferencesAfter(name), 1,
                        Len(ReferencesAfter(name)) - Len(ReferencesBefore(name))))
           = DependencyPaths(name) \ PathsOf(ReferencesBefore(name))


\* the directory the sources of a project are in: its sourceRoot, else the
\* rootDir of its tsconfig.json, else <root>/src when that is there, else
\* its root
SourceRootOf(name) ==
  IF NodeOf(sync.nodes, name).sourceRoot # <<>> THEN NodeOf(sync.nodes, name).sourceRoot
  ELSE IF TsconfigPathOf(name) \in DOMAIN sync.before
          /\ sync.before[TsconfigPathOf(name)].rootDir # <<>>
       THEN normalize(RootOf(name) \o sync.before[TsconfigPathOf(name)].rootDir)
  ELSE IF (RootOf(name) \o <<"src">>) \in DOMAIN sync.before THEN RootOf(name) \o <<"src">>
  ELSE RootOf(name)

DependencyKeys(name) ==
  { <<t>> : t \in FirstPartyTargets(name) } \cup { <<t, "*">> : t \in FirstPartyTargets(name) }

PathsBefore(name) == sync.before[TsconfigPathOf(name)].paths
PathsAfter(name) == tree[TsconfigPathOf(name)].paths

HasMapping(paths, key, value) == key \in DOMAIN paths /\ paths[key] = <<value>>

\* C17: after the tsc syncGenerator the compilerOptions.paths of a
\* dependent project's tsconfig.json keep every entry under a key other
\* than <dep> and <dep>/*, and map <dep> to the index.ts and <dep>/* to the
\* files below the relative path to the dependency's source root.
C17_PathsSynced ==
  (CallOver /\ sync.variant = "tsc") =>
    \A name \in Dependents :
      /\ \A key \in DOMAIN PathsBefore(name) \ DependencyKeys(name) :
           key \in DOMAIN PathsAfter(name) /\ PathsAfter(name)[key] = PathsBefore(name)[key]
      /\ \A t \in FirstPartyTargets(name) :
           /\ HasMapping(PathsAfter(name), <<t>>,
                         PathBetween(RootOf(name), SourceRootOf(t)) \o <<"index.ts">>)
           /\ HasMapping(PathsAfter(name), <<t, "*">>,
                         PathBetween(RootOf(name), SourceRootOf(t)) \o <<"*">>)

\* the entry of the plugin in nx.json asks for a build target
ConfiguredPlugin == find(sync.plugins, PLUGIN_NAME(sync.variant))[1]

BuildEnabled ==
  /\ ConfiguredPlugin.form = "object"
  /\ ConfiguredPlugin.options.given
  /\ \/ ConfiguredPlugin.options.build.kind = "object"
     \/ ConfiguredPlugin.options.build.kind = "boolean" /\ ConfiguredPlugin.options.build.value

ConfigName ==
  IF ConfiguredPlugin.options.build.configName = Undefined
  THEN "tsconfig.lib.json"
  ELSE ConfiguredPlugin.options.build.configName

BuildTsconfigPathOf(name) == RootOf(name) \o <<ConfigName>>

\* the files of the tree that are neither the root tsconfig.json nor the
\* tsconfig.json of a project
BuildTsconfigs ==
  { path \in DOMAIN sync.before : path[Len(path)] # "tsconfig.json" }

\* where the outDir of a project's tsconfig.lib.json is
OutDirOf(name) ==
  normalize(RootOf(name) \o sync.before[RootOf(name) \o <<"tsconfig.lib.json">>].outDir)

\* C18: the tsc syncGenerator changes a build tsconfig only when the build
\* option of the plugin is enabled and the file named by configName is in
\* the dependent project, and then its paths map every dependency to the
\* relative path to the dependency's outDir; with build false or absent,
\* the plugin given as a string, or no such file, every build tsconfig
\* stays as it was.
C18_BuildTsconfigSynced ==
  (CallOver /\ sync.variant = "tsc") =>
    /\ \A path \in BuildTsconfigs :
         tree[path] # sync.before[path] =>
           /\ BuildEnabled
           /\ \E name \in Dependents : path = BuildTsconfigPathOf(name)
    /\ BuildEnabled =>
         \A name \in Dependents :
           BuildTsconfigPathOf(name) \in DOMAIN sync.before =>
             \A t \in FirstPartyTargets(name) :
               HasMapping(tree[BuildTsconfigPathOf(name)].paths, <<t>>,
                          PathBetween(RootOf(name), OutDirOf(t)))

EmptyObject == <<>>

\* { ...options, ...nxArgs }
spread(options, args) == args @@ options

\* ---- modules

appRootPath == <<"/root">>

isRelativePath(path) == path # <<>> /\ Head(path) \in {".", ".."}

join(a, b) == normalize(a \o b)

defaultTasksRunner == "defaultTasksRunner"

NoExport == "no default export"

\* what require gives for a path: the module and its default export, if
\* it has one
Module(exports, default) == [exports |-> exports, default |-> default]

require(modulePath) ==
  CASE modulePath = <<"/root", "tools", "runner">> -> Module("tools/runner exports", "toolsRunner")
    [] modulePath = <<"@nrwl", "nx-cloud">> -> Module("nxCloudRunner", NoExport)
    [] OTHER -> Module("unknown module", NoExport)

\* tasksRunner = require(modulePath); if (tasksRunner.default) ...
runnerOf(module) == IF module.default # NoExport THEN module.default ELSE module.exports

NoPath == <<>>

tasksRunnerAt(modulePath) ==
  IF modulePath # NoPath
  THEN runnerOf(require(IF isRelativePath(modulePath)
                        THEN join(appRootPath, modulePath)
                        ELSE modulePath))
  ELSE defaultTasksRunner

\* ---- the call

Returned(tasksRunner, runnerOptions) ==
  [kind |-> "returned", tasksRunner |-> tasksRunner, runnerOptions |-> runnerOptions,
   title |-> <<>>, code |-> 0]

Exited(title, code) ==
  [kind |-> "exit", tasksRunner |-> "none", runnerOptions |-> EmptyObject,
   title |-> title, code |-> code]

NoResultYet == [kind |-> "none", tasksRunner |-> "none", runnerOptions |-> EmptyObject,
                title |-> <<>>, code |-> 0]

\* nxArgs.runner; a key that is not there reads as undefined
runnerArg(args) == IF "runner" \in DOMAIN args THEN args["runner"] ELSE Undefined

\* a value that counts as false: undefined or the empty string
Falsy(value) == value \in {Undefined, ""}

NoTasksRunnerOptions == [present |-> FALSE, entries |-> EmptyObject]
TasksRunnerOptions(entries) == [present |-> TRUE, entries |-> entries]

RunnerEntry(runner, options) == [runner |-> runner, options |-> options]

getConfiguredRunner(args, options, runner) ==
  IF runner \in DOMAIN options.entries
  THEN Returned(tasksRunnerAt(options.entries[runner].runner),
                spread(options.entries[runner].options, args))
  ELSE Exited(<<"Could not find runner configuration for ", runner>>, 1)

getRunner(args, options) ==
  IF ~options.present THEN Returned(defaultTasksRunner, args)
  ELSE IF Falsy(runnerArg(args)) /\ "default" \notin DOMAIN options.entries
  THEN Returned(defaultTasksRunner, args)
  ELSE getConfiguredRunner(args, options,
                           IF Falsy(runnerArg(args)) THEN "default" ELSE runnerArg(args))

GetRunner ==
  /\ runnerCall.pc = "call"
  /\ runnerCall' = [runnerCall EXCEPT
                      !.pc = "over",
                      !.result = getRunner(runnerCall.nxArgs, runnerCall.tasksRunnerOptions)]
  /\ UNCHANGED othersThanRunner

\* ---- the calls that are made

RunnerArgs == { Undefined, "", "default", "custom", "cloud", "missing" }

CliArgs ==
  { EmptyObject,
    "target" :> "build",
    ("target" :> "build") @@ ("parallel" :> "true"),
    ("target" :> "test") @@ ("cacheDirectory" :> "/tmp/cli") }

NxArgsOf(runner, args) == IF runner = Undefined THEN args ELSE ("runner" :> runner) @@ args

ConfiguredOptions ==
  { EmptyObject,
    "cacheDirectory" :> "/tmp/configured",
    ("parallel" :> "false") @@ ("cacheableOperations" :> "build,test") }

DefaultEntries ==
  { EmptyObject,
    "default" :> RunnerEntry(NoPath, EmptyObject),
    "default" :> RunnerEntry(<<"@nrwl", "nx-cloud">>, "cacheDirectory" :> "/tmp/configured") }

CustomEntries ==
  { EmptyObject } \cup
  { ("custom" :> RunnerEntry(<<".", "tools", "runner">>, options))
    @@ ("cloud" :> RunnerEntry(<<"@nrwl", "nx-cloud">>, options)) : options \in ConfiguredOptions }

RunnerInit ==
  /\ \E runner \in RunnerArgs, args \in CliArgs, present \in BOOLEAN,
        default \in DefaultEntries, custom \in CustomEntries :
       /\ ~present => default = EmptyObject /\ custom = EmptyObject
       /\ runnerCall = [pc |-> "call", nxArgs |-> NxArgsOf(runner, args),
                        tasksRunnerOptions |->
                          IF present THEN TasksRunnerOptions(default @@ custom)
                          ELSE NoTasksRunnerOptions,
                        result |-> NoResultYet]
  /\ PlannerOff /\ ScanOff /\ TscOff /\ SyncOff /\ TuiOff /\ RendererOff

RunnerNext == GetRunner

RunnerSpec == RunnerInit /\ [][RunnerNext]_vars

\* ---- C20

Requested == runnerArg(runnerCall.nxArgs)

\* the name getRunner looks up: the requested runner, default when none
\* is requested
Selected == IF Falsy(Requested) THEN "default" ELSE Requested

Entries == runnerCall.tasksRunnerOptions.entries

\* no tasksRunnerOptions, or no runner requested and no default entry
LegacyForm ==
  \/ ~runnerCall.tasksRunnerOptions.present
  \/ Falsy(Requested) /\ "default" \notin DOMAIN Entries

\* the configured options, each key overridden by the CLI argument of that
\* key where there is one
Overridden(configured, args) ==
  [key \in DOMAIN configured \cup DOMAIN args |->
     IF key \in DOMAIN args THEN args[key] ELSE configured[key]]

ModuleOfEntry(entry) ==
  CASE entry.runner = NoPath -> defaultTasksRunner
    [] entry.runner = <<".", "tools", "runner">> -> "toolsRunner"
    [] entry.runner = <<"@nrwl", "nx-cloud">> -> "nxCloudRunner"
    [] OTHER -> "unknown module"

\* a runner is requested and tasksRunnerOptions has no entry for it
RequestedNotConfigured ==
  /\ ~Falsy(Requested)
  /\ \/ ~runnerCall.tasksRunnerOptions.present
     \/ Requested \notin DOMAIN Entries

\* C20: a requested runner that is not configured ends in an error, never
\* in the default runner; otherwise getRunner returns the built-in default
\* runner with the CLI args as options when there are no tasksRunnerOptions,
\* or no runner is requested and there is no default entry; and when the
\* requested runner (or default when none is requested) is configured, it
\* returns that runner's module, the built-in default runner for an entry
\* without a runner path, with the configured options overridden key by
\* key by the CLI args.
C20_RunnerForBothForms ==
  runnerCall.pc = "over" =>
    IF RequestedNotConfigured
    THEN /\ runnerCall.result.kind = "exit"
         /\ runnerCall.result.code = 1
         /\ runnerCall.result.tasksRunner # defaultTasksRunner
    ELSE IF LegacyForm
    THEN /\ runnerCall.result.kind = "returned"
         /\ runnerCall.result.tasksRunner = defaultTasksRunner
         /\ runnerCall.result.runnerOptions = runnerCall.nxArgs
    ELSE /\ runnerCall.result.kind = "returned"
         /\ runnerCall.result.tasksRunner = ModuleOfEntry(Entries[Selected])
         /\ runnerCall.result.runnerOptions =
              Overridden(Entries[Selected].options, runnerCall.nxArgs)


(***************************************************************************)
(* Claims about the overrides of the planned tasks                         *)
(***************************************************************************)

\* the text of a top-level property of a project, as a template gets it
PropertyText(project, key) ==
  IF key = "name" THEN project
  ELSE IF key = "root" THEN projectGraph.nodes[project].data.root
  ELSE "undefined"

\* a group with a dot in it
NestedPath(group) == group \in {"a.b", "data.root"}

RECURSIVE TextFor(_, _)
TextFor(parts, project) ==
  IF parts = <<>> THEN ""
  ELSE (IF Head(parts).k = "lit" THEN Head(parts).v
        ELSE PropertyText(project, Head(parts).v)) \o TextFor(Tail(parts), project)

\* the overrides of the caller with every place of every string value
\* filled in for the project
OverridesFor(args, project) ==
  [name \in DOMAIN args |->
     IF args[name].type = "string"
     THEN StringValue(<<Lit(TextFor(args[name].parts, project))>>)
     ELSE args[name]]

HasNestedPath(args) ==
  \E name \in DOMAIN args :
    /\ args[name].type = "string"
    /\ \E i \in 1..Len(args[name].parts) :
         args[name].parts[i].k = "interp" /\ NestedPath(args[name].parts[i].v)

\* the last task planned for a requested project, which is the one its
\* own createTask made
LastRequested == projectsToRun[Len(projectsToRun)]

TaskOf(project) ==
  tasks[CHOOSE i \in 1..Len(tasks) :
          tasks[i].target.project = project /\ tasks[i].target.target = nxArgs.target]

\* C21: in the overrides of a task every {project.name} of a top-level
\* string value is replaced by the project name and every {project.<key>}
\* by the project's top-level property <key>; a nested path is rejected
\* with an error; values that are no strings are left as they are, and the
\* overrides the caller passed in are not modified.
C21_OverridesInterpolated ==
  /\ [](/\ (Finished /\ HasNestedPath(overrides)) => ~Planned
        /\ pc = "threw" => HasNestedPath(overrides)
        /\ Planned => TaskOf(LastRequested).overrides = OverridesFor(overrides, LastRequested))
  /\ [][overrides' = overrides]_vars

\* a task was planned whose override names the root and, twice, the name
\* of its project, next to nothing else
C21_Witness ==
  /\ Planned
  /\ LastRequested = "b"
  /\ "out" \in DOMAIN overrides
  /\ Len(overrides["out"].parts) = 5
  /\ TaskOf("b").overrides["out"] = StringValue(<<Lit("libs/b/out/b-b")>>)

\* the tasks of the requested projects for the requested target
IsRequestedTask(task) ==
  /\ task.target.project \in Range(projectsToRun)
  /\ task.target.target = RequestedTarget

\* C23: the overrides of the planned tasks do not depend on the order of
\* projectsToRun or on dependencies between the requested projects: every
\* task of a requested project for the requested target carries the
\* caller's interpolated overrides and every task that is there for a
\* dependency rule only carries empty overrides.
C23_OverridesIndependentOfOrder ==
  Planned =>
    \A i \in 1..Len(tasks) :
      tasks[i].overrides =
        IF IsRequestedTask(tasks[i])
        THEN OverridesFor(overrides, tasks[i].target.project)
        ELSE EmptyOverrides


(***************************************************************************)
(* The TUI summary life cycle (getTuiTerminalSummaryLifeCycle)             *)
(***************************************************************************)

\* createTaskId(project, target, configuration)
createTaskId(project, target, configuration) ==
  IF configuration # Undefined
  THEN project \o ":" \o target \o ":" \o configuration
  ELSE project \o ":" \o target

TaskIds == {"app:build", "lib:build", "util:build"}

CacheStatuses == {"remote-cache", "local-cache", "local-cache-kept-existing"}
RunStatuses == {"success", "failure", "remote-cache", "local-cache-kept-existing"}
Skipped == "skipped"

TaskResult(id, status) == [task |-> id, status |-> status]

\* Set.add and Set.delete on a set that keeps the order of insertion
SetAdd(set, id) == IF id \in Range(set) THEN set ELSE Append(set, id)
SetDelete(set, id) == SelectSeq(set, LAMBDA x : x # id)

RECURSIVE startEach(_, _)
startEach(inProgressTasks, batch) ==
  IF batch = <<>> THEN inProgressTasks
  ELSE startEach(SetAdd(inProgressTasks, Head(batch)), Tail(batch))

\* a loop body that leaves the task in progress
endOneKeptInProgress(T, t) ==
  [T EXCEPT
     !.totalCompletedTasks = @ + 1,
     !.totalCachedTasks = IF t.status \in CacheStatuses THEN @ + 1 ELSE @,
     !.totalSuccessfulTasks =
        IF t.status \in CacheStatuses \/ t.status = "success" THEN @ + 1 ELSE @,
     !.totalFailedTasks = IF t.status = "failure" THEN @ + 1 ELSE @,
     !.failedTasks = IF t.status = "failure" THEN SetAdd(@, t.task) ELSE @]

\* the body of the loop of endTasks, for one result
endOne(T, t) ==
  [T EXCEPT
     !.totalCompletedTasks = @ + 1,
     !.inProgressTasks = SetDelete(@, t.task),
     !.totalCachedTasks = IF t.status \in CacheStatuses THEN @ + 1 ELSE @,
     !.totalSuccessfulTasks =
        IF t.status \in CacheStatuses \/ t.status = "success" THEN @ + 1 ELSE @,
     !.totalFailedTasks = IF t.status = "failure" THEN @ + 1 ELSE @,
     !.failedTasks = IF t.status = "failure" THEN SetAdd(@, t.task) ELSE @]

RECURSIVE endEach(_, _)
endEach(T, taskResults) ==
  IF taskResults = <<>> THEN T
  ELSE endEach(endOne(T, Head(taskResults)), Tail(taskResults))

\* ---- printSummary

Truthy(value) == value \notin {Null, Undefined, ""}

initiatingTaskId(T) ==
  IF Truthy(T.initiatingProject)
  THEN createTaskId(T.initiatingProject, T.targets[1], T.configuration)
  ELSE Null

Row(mark, taskId) == [mark |-> mark, taskId |-> taskId]

\* the rows of the tasks that completed, in the order of completion
RECURSIVE completedRows(_, _, _)
completedRows(T, ids, initiating) ==
  IF ids = <<>> THEN <<>>
  ELSE (IF Head(ids) = initiating THEN <<>>
        ELSE IF T.tasksToTerminalOutputs[Head(ids)] = "failure"
             THEN <<Row("cross", Head(ids))>>
             ELSE <<Row("tick", Head(ids))>>)
       \o completedRows(T, Tail(ids), initiating)

inProgressRows(T, initiating) ==
  [i \in 1..Len(SelectSeq(T.inProgressTasks, LAMBDA id : id # initiating)) |->
     Row("circleDotted", SelectSeq(T.inProgressTasks, LAMBDA id : id # initiating)[i])]

\* output.logCommandOutput: the failed tasks in the order of completion,
\* then the task of the initiating project when there is one target and
\* the task has an output
loggedOutputs(T, initiating) ==
  SelectSeq(T.taskIdsInOrderOfCompletion,
            LAMBDA id : id # initiating /\ T.tasksToTerminalOutputs[id] = "failure")
  \o (IF Truthy(T.initiatingProject) /\ Len(T.targets) = 1
         /\ initiating \in DOMAIN T.tasksToTerminalOutputs
      THEN <<initiating>> ELSE <<>>)

failureFlag(T) == T.totalFailedTasks > 0 \/ Len(T.inProgressTasks) > 0

separator(T, initiating) ==
  IF Truthy(T.initiatingProject) /\ Len(T.targets) = 1
  THEN IF initiating \in DOMAIN T.tasksToTerminalOutputs
       THEN (IF failureFlag(T) THEN "red" ELSE "green")
       ELSE "none"
  ELSE IF T.totalTasks > 0 THEN (IF failureFlag(T) THEN "red" ELSE "green")
  ELSE "none"

numFailedToPrint == 5

\* the decision that the run was a success, and the one of the separator
successByFlag(T) == ~failureFlag(T)
successByCount(T) == T.totalSuccessfulTasks = T.totalTasks

summaryText(T) ==
  IF successByCount(T) THEN "Successfully ran"
  ELSE IF Len(T.inProgressTasks) > 0 THEN "Cancelled while running"
  ELSE "Ran"

printSummary(T) ==
  IF T.totalTasks = 0 THEN [kind |-> "No tasks were run"]
  ELSE [kind |-> "summary",
        failure |-> failureFlag(T),
        rows |-> completedRows(T, T.taskIdsInOrderOfCompletion, initiatingTaskId(T))
                 \o inProgressRows(T, initiatingTaskId(T)),
        logged |-> loggedOutputs(T, initiatingTaskId(T)),
        separator |-> separator(T, initiatingTaskId(T)),
        text |-> summaryText(T),
        colour |-> IF successByCount(T) THEN "green" ELSE "red",
        succeeded |-> T.totalSuccessfulTasks,
        completed |-> T.totalCompletedTasks,
        cached |-> T.totalCachedTasks,
        failed |-> T.totalFailedTasks,
        failedTasksForPrinting |->
          IF successByCount(T) THEN <<>>
          ELSE SubSeq(T.failedTasks, 1,
                      IF Len(T.failedTasks) < numFailedToPrint
                      THEN Len(T.failedTasks) ELSE numFailedToPrint)]

\* ---- the events of the life cycle bus

Started(id) == id \in tui.started
Ended(id) == id \in DOMAIN tui.ended

\* startTasks for tasks that were neither started nor ended
StartTasks(batch) ==
  /\ tui.pc = "running"
  /\ batch # <<>>
  /\ \A i \in 1..Len(batch) : ~Started(batch[i]) /\ ~Ended(batch[i])
  /\ tui' = [tui EXCEPT !.inProgressTasks = startEach(@, batch),
                        !.started = @ \cup Range(batch)]
  /\ UNCHANGED summary
  /\ UNCHANGED othersThanTui

\* the output of a task that ran or was read from the cache
PrintTaskTerminalOutput(task, taskStatus) ==
  /\ tui.pc = "running"
  /\ Started(task) /\ ~Ended(task)
  /\ task \notin DOMAIN tui.tasksToTerminalOutputs
  /\ tui' = [tui EXCEPT !.tasksToTerminalOutputs = (task :> taskStatus) @@ @,
                        !.taskIdsInOrderOfCompletion = Append(@, task)]
  /\ UNCHANGED summary
  /\ UNCHANGED othersThanTui

\* the bus contract: a started task ends with the status of its run (the
\* one its output was printed with, when it was printed), a task that never
\* started ends as skipped
CanEndWith(id, status) ==
  /\ ~Ended(id)
  /\ IF Started(id)
     THEN /\ status \in RunStatuses
          /\ id \in DOMAIN tui.tasksToTerminalOutputs
               => status = tui.tasksToTerminalOutputs[id]
     ELSE status = Skipped

StatusIn(taskResults, id) ==
  taskResults[CHOOSE i \in 1..Len(taskResults) : taskResults[i].task = id].status

EndTasks(taskResults) ==
  /\ tui.pc = "running"
  /\ taskResults # <<>>
  /\ \A i \in 1..Len(taskResults) : CanEndWith(taskResults[i].task, taskResults[i].status)
  /\ tui' = [endEach(tui, taskResults) EXCEPT
               !.ended = [id \in {taskResults[i].task : i \in 1..Len(taskResults)} |->
                            StatusIn(taskResults, id)] @@ @]
  /\ UNCHANGED summary
  /\ UNCHANGED othersThanTui

\* endCommand, once every task has ended
EndCommand ==
  /\ tui.pc = "running"
  /\ tui.tasks = DOMAIN tui.ended
  /\ tui.timeTakenText = Undefined
  /\ tui' = [tui EXCEPT !.timeTakenText = "prettyTime"]
  /\ UNCHANGED summary
  /\ UNCHANGED othersThanTui

\* printSummary, when the run ended or was cancelled
PrintSummary ==
  /\ tui.pc = "running"
  /\ summary' = printSummary(tui)
  /\ tui' = [tui EXCEPT !.pc = "printed",
                        !.timeTakenText = IF @ = Undefined THEN "prettyTime" ELSE @]
  /\ UNCHANGED othersThanTui

MaxBatch == 2

NoFunction == [id \in {} |-> Undefined]

LifeCycle(taskIds, initiatingProjectName, targets) ==
  [pc |-> "running",
   tasks |-> taskIds,
   totalTasks |-> Cardinality(taskIds),
   initiatingProject |-> initiatingProjectName,
   targets |-> targets,
   configuration |-> Undefined,
   timeTakenText |-> Undefined,
   totalCachedTasks |-> 0,
   totalSuccessfulTasks |-> 0,
   totalFailedTasks |-> 0,
   totalCompletedTasks |-> 0,
   failedTasks |-> <<>>,
   inProgressTasks |-> <<>>,
   tasksToTerminalOutputs |-> NoFunction,
   taskIdsInOrderOfCompletion |-> <<>>,
   started |-> {},
   ended |-> NoFunction]

TuiInit ==
  /\ \E taskIds \in SUBSET TaskIds :
     \E initiatingProjectName \in {Null, "app"} :
     \E targets \in {<<"build">>, <<"build", "test">>} :
       tui = LifeCycle(taskIds, initiatingProjectName, targets)
  /\ summary = [kind |-> "none"]
  /\ PlannerOff /\ ScanOff /\ TscOff /\ SyncOff /\ RunnerOff /\ RendererOff

TuiNext ==
  \/ \E batch \in SeqsNoRep(tui.tasks, MaxBatch) : StartTasks(batch)
  \/ \E task \in tui.tasks : \E taskStatus \in RunStatuses :
       PrintTaskTerminalOutput(task, taskStatus)
  \/ \E ids \in SeqsNoRep(tui.tasks, MaxBatch) :
     \E statuses \in [1..Len(ids) -> RunStatuses \cup {Skipped}] :
       EndTasks([i \in 1..Len(ids) |-> TaskResult(ids[i], statuses[i])])
  \/ EndCommand
  \/ PrintSummary

TuiSpec == TuiInit /\ [][TuiNext]_vars

\* ---- the claims about the summary

InProgress == tui.started \ DOMAIN tui.ended
EndedWith(status) == {id \in DOMAIN tui.ended : tui.ended[id] = status}
Printed == tui.pc = "printed" /\ summary.kind = "summary"

\* C26: under the bus contract the counters are ordered cached <=
\* successful, successful + failed <= completed <= total, failedTasks is the
\* set of the ids that ended with failure, inProgressTasks the set of the ids
\* started and not ended, which is empty once every task has ended
C26_CountersFollowTheEvents ==
  tui.pc \in {"running", "printed"} =>
    /\ tui.totalCachedTasks <= tui.totalSuccessfulTasks
    /\ tui.totalSuccessfulTasks + tui.totalFailedTasks <= tui.totalCompletedTasks
    /\ tui.totalCompletedTasks <= tui.totalTasks
    /\ Range(tui.failedTasks) = EndedWith("failure")
    /\ Len(tui.failedTasks) = Cardinality(EndedWith("failure"))
    /\ Range(tui.inProgressTasks) = InProgress
    /\ Len(tui.inProgressTasks) = Cardinality(InProgress)
    /\ tui.tasks = DOMAIN tui.ended => tui.inProgressTasks = <<>>

C26_Witness ==
  /\ tui.pc = "running"
  /\ tui.tasks = TaskIds
  /\ tui.ended = ("app:build" :> "failure") @@ ("lib:build" :> "remote-cache")
  /\ InProgress = {"util:build"}
  /\ tui.totalCachedTasks = 1 /\ tui.totalCompletedTasks = 2

\* C22: a summary printed while some task is in progress is the summary of
\* a cancellation, in the colour of failure, and lists every task in
\* progress, the one of the initiating project included
C22_CancellationListsEveryTaskInProgress ==
  (Printed /\ InProgress # {}) =>
    /\ summary.text = "Cancelled while running"
    /\ summary.colour = "red"
    /\ \A id \in InProgress : Row("circleDotted", id) \in Range(summary.rows)

\* C27: the success summary is printed exactly when the failure flag of the
\* separator is false
C27_SuccessDecisionsAgree ==
  Printed => ((summary.text = "Successfully ran") <=> ~summary.failure)


(***************************************************************************)
(* The dynamic renderer of run-many (createOutputRenderer)                 *)
(***************************************************************************)

\* the number of frames of the spinner (dots.frames of cli-spinners)
Frames == 2

ProjectOf(id) ==
  CASE id = "app:build" -> "app"
    [] id = "lib:build" -> "lib"
    [] id = "util:build" -> "util"

\* clearRenderInterval: the id of the interval stays where it is
clearRenderInterval(r) ==
  [r EXCEPT !.interval = IF @ = "active" THEN "cleared" ELSE @]

runningRows(r) == {p \in DOMAIN r.projectRows : r.projectRows[p] = "running"}

\* renderProjectRows: the next frame of the spinner and the pinned footer
renderProjectRows(r) ==
  [r EXCEPT
     !.projectRowsCurrentFrame = IF @ >= Frames - 1 THEN 0 ELSE @ + 1,
     !.footer = IF runningRows(r) # {} \/ r.totalSuccessfulTasks > 0
                   \/ r.totalFailedTasks > 0
                THEN "Running target" ELSE "empty"]

\* printTaskResult
printTaskResult(r, id) ==
  renderProjectRows([r EXCEPT !.hasTaskOutput = TRUE,
                              !.tasksToTerminalOutputs = @ \ {id}])

\* the body of the loop of lifeCycle.endTasks, for one result
endTaskResult(r, t) ==
  printTaskResult(
    [r EXCEPT
       !.projectRows = IF ProjectOf(t.task) \in DOMAIN @
                       THEN [@ EXCEPT ![ProjectOf(t.task)] = t.status] ELSE @,
       !.totalCachedTasks = IF t.status \in {"remote-cache", "local-cache"}
                            THEN @ + 1 ELSE @,
       !.totalSuccessfulTasks =
          IF t.status \in {"remote-cache", "local-cache", "success"} THEN @ + 1 ELSE @,
       !.totalFailedTasks = IF t.status = "failure" THEN @ + 1 ELSE @],
    t.task)

RECURSIVE endTaskResults(_, _)
endTaskResults(r, taskResults) ==
  IF taskResults = <<>> THEN r
  ELSE endTaskResults(endTaskResult(r, Head(taskResults)), Tail(taskResults))

\* the end of lifeCycle.endTasks: the last footer and the promise, once the
\* count of the completed tasks is the count of the tasks
finishWhenCompleted(r) ==
  IF r.totalCompletedTasks = r.totalTasks
  THEN [clearRenderInterval(r) EXCEPT
          !.footer = IF r.totalSuccessfulTasks = r.totalTasks
                     THEN "Successfully ran target" ELSE "Ran target",
          !.resolved = TRUE]
  ELSE r

\* lifeCycle.endTasks: one is added to totalCompletedTasks for the call
endTasks(r, taskResults) ==
  finishWhenCompleted(
    endTaskResults([r EXCEPT !.totalCompletedTasks = @ + 1], taskResults))

\* lifeCycle.startTasks
startTasks(r, batch) ==
  [r EXCEPT
     !.projectRows = [p \in DOMAIN @ |->
                        IF \E i \in 1..Len(batch) : ProjectOf(batch[i]) = p
                        THEN "running" ELSE @[p]],
     !.interval = IF @ = Undefined THEN "active" ELSE @]

\* lifeCycle.startCommand
startCommand(r) ==
  IF r.totalProjects <= 0
  THEN [r EXCEPT !.footer = "No projects were run", !.resolved = TRUE]
  ELSE [r EXCEPT !.footer = "empty"]

\* teardown
teardown(r) == [clearRenderInterval(r) EXCEPT !.resolved = TRUE]

\* ---- the events

RendererStarted(id) == id \in renderer.started
RendererEnded(id) == id \in renderer.ended

StartCommand ==
  /\ renderer.pc = "created"
  /\ renderer' = [startCommand(renderer) EXCEPT !.pc = "running"]
  /\ UNCHANGED othersThanRenderer

RendererStartTasks(batch) ==
  /\ renderer.pc = "running"
  /\ batch # <<>>
  /\ \A i \in 1..Len(batch) : ~RendererStarted(batch[i]) /\ ~RendererEnded(batch[i])
  /\ renderer' = [startTasks(renderer, batch) EXCEPT !.started = @ \cup Range(batch)]
  /\ UNCHANGED othersThanRenderer

RendererPrintTaskTerminalOutput(task) ==
  /\ renderer.pc = "running"
  /\ RendererStarted(task) /\ ~RendererEnded(task)
  /\ task \notin renderer.tasksToTerminalOutputs
  /\ renderer' = [renderer EXCEPT !.tasksToTerminalOutputs = @ \cup {task}]
  /\ UNCHANGED othersThanRenderer

\* results as the runner groups them: a task that ran and printed its
\* output ends with a run status, a task that never started ends as skipped
RendererEndTasks(taskResults) ==
  /\ renderer.pc = "running"
  /\ taskResults # <<>>
  /\ \A i \in 1..Len(taskResults) :
       /\ ~RendererEnded(taskResults[i].task)
       /\ IF RendererStarted(taskResults[i].task)
          THEN /\ taskResults[i].task \in renderer.tasksToTerminalOutputs
               /\ taskResults[i].status # Skipped
          ELSE taskResults[i].status = Skipped
  /\ renderer' = [endTasks(renderer, taskResults) EXCEPT
                    !.ended = @ \cup {taskResults[i].task : i \in 1..Len(taskResults)}]
  /\ UNCHANGED othersThanRenderer

\* the callback of setInterval(renderProjectRows, 100)
RenderProjectRowsInterval ==
  /\ renderer.pc = "running"
  /\ renderer.interval = "active"
  /\ renderer' = renderProjectRows(renderer)
  /\ UNCHANGED othersThanRenderer

\* renderIsDone: the promise, once resolved, then clearRenderInterval
RenderIsDone ==
  /\ renderer.resolved
  /\ renderer.renderIsDone = "pending"
  /\ renderer' = [clearRenderInterval(renderer) EXCEPT !.renderIsDone = "resolved"]
  /\ UNCHANGED othersThanRenderer

\* exit, SIGINT, unhandledRejection, uncaughtException
Teardown ==
  /\ renderer.pc = "running"
  /\ ~renderer.resolved
  /\ renderer' = teardown(renderer)
  /\ UNCHANGED othersThanRenderer

RendererStatuses == {"success", "failure", "local-cache", Skipped}

OutputRenderer(projectNames, taskIds) ==
  [pc |-> "created",
   tasks |-> taskIds,
   totalTasks |-> Cardinality(taskIds),
   totalProjects |-> Cardinality(projectNames),
   projectRows |-> [p \in projectNames |-> "pending"],
   tasksToTerminalOutputs |-> {},
   hasTaskOutput |-> FALSE,
   totalCompletedTasks |-> 0,
   totalSuccessfulTasks |-> 0,
   totalFailedTasks |-> 0,
   totalCachedTasks |-> 0,
   projectRowsCurrentFrame |-> 0,
   interval |-> Undefined,
   footer |-> "none",
   resolved |-> FALSE,
   renderIsDone |-> "pending",
   started |-> {},
   ended |-> {}]

\* the projects to run are projects of the tasks; the other tasks are the
\* tasks they depend on
RendererInit ==
  /\ \E taskIds \in SUBSET TaskIds :
     \E projectNames \in SUBSET {ProjectOf(id) : id \in taskIds} :
       /\ taskIds # {} => projectNames # {}
       /\ renderer = OutputRenderer(projectNames, taskIds)
  /\ PlannerOff /\ ScanOff /\ TscOff /\ SyncOff /\ RunnerOff /\ TuiOff

RendererNext ==
  \/ StartCommand
  \/ \E batch \in SeqsNoRep(renderer.tasks, MaxBatch) : RendererStartTasks(batch)
  \/ \E task \in renderer.tasks : RendererPrintTaskTerminalOutput(task)
  \/ \E ids \in SeqsNoRep(renderer.tasks, MaxBatch) :
     \E statuses \in [1..Len(ids) -> RendererStatuses] :
       RendererEndTasks([i \in 1..Len(ids) |-> TaskResult(ids[i], statuses[i])])
  \/ RenderProjectRowsInterval
  \/ RenderIsDone
  \/ Teardown

RendererSpec == RendererInit /\ [][RendererNext]_vars

\* the event loop runs the callbacks that are due: the reaction of the
\* promise and the callback of the interval
RendererLiveSpec ==
  /\ RendererSpec
  /\ WF_vars(RenderIsDone)
  /\ WF_vars(RenderProjectRowsInterval)

EveryTaskReported == renderer.pc = "running" /\ renderer.tasks # {}
                     /\ renderer.ended = renderer.tasks

RenderStopped == renderer.renderIsDone = "resolved" /\ renderer.interval # "active"

\* C24: once every task was reported through endTasks, renderIsDone
\* eventually resolves and the periodic render of the footer is stopped,
\* however the results were grouped into calls of endTasks
C24_RenderIsDoneOnceEveryTaskEnded == EveryTaskReported ~> RenderStopped


(***************************************************************************)
(* Import scanner: the progress of the loops of processImports             *)
(***************************************************************************)

AtEndOfFile(S) == S.token = "EndOfFileToken"

\* the scanner moved forward, or the scan stopped at the end of the file
MovedOn(S0, S) == S.end > S0.end \/ AtEndOfFile(S)

\* every turn of the loop over a template that starts with the scanner at S
\* and the given stack scans forward or stops at the end of the file
RECURSIVE TemplateTurnsConsume(_, _)
TemplateTurnsConsume(S, stack) ==
  \/ stack = <<>>
  \/ AtEndOfFile(S)
  \/ /\ MovedOn(S, scannerScan(TemplateSwitch(S, stack).S))
     /\ TemplateTurnsConsume(scannerScan(TemplateSwitch(S, stack).S),
                             TemplateSwitch(S, stack).stack)

\* the file ends with a line of the given kind
EndsWith(kind) ==
  \E m \in {"@proj/proj2", "@proj/proj3a", "lodash"}, semicolon \in BOOLEAN :
    /\ Len(sourceText) >= Len(Line(kind, m, semicolon).lex)
    /\ SubSeq(sourceText, Len(sourceText) - Len(Line(kind, m, semicolon).lex) + 1,
              Len(sourceText)) = Line(kind, m, semicolon).lex

\* C25: every turn of the loop of processImports, and every turn of its loop
\* over a template literal, moves the scanner forward or stops at the end of
\* the file, and the scanner never passes the end of the text; so the scan
\* of every file ends, the files that end inside a brace, a clause, a
\* template or a list of define included
C25_EveryTurnConsumes ==
  scanPc = "scan" =>
    /\ ~AtEndOfFile(scanner) => MovedOn(scanner, processImportsStep(scanner))
    /\ scanner.token = "TemplateHead" =>
         TemplateTurnsConsume(scannerScan(scanner), <<"TemplateHead">>)
    /\ scanner.end <= Len(sourceText) + 1

\* a file that ends inside a list of define was scanned to its end
C25_Witness ==
  /\ scanPc = "scan"
  /\ AtEndOfFile(scanner)
  /\ EndsWith("define(['M'")
  /\ scanner.end = Len(sourceText) + 1
  /\ scanner.importedFiles # <<>>


(***************************************************************************)
(* Sync generators: a second run                                           *)
(***************************************************************************)

SecondRun == sync.run = 2

\* C28: a second run of the generator, after a first run that succeeded,
\* leaves every file of the tree as the first run left it: the root
\* tsconfig.json, the tsconfig.json of every project and every build
\* tsconfig keep their references, in their order, and their paths
C28_SecondRunChangesNothing == SecondRun => tree = sync.before

\* the first run changed the tree and the second run is over
C28_Witness ==
  /\ SecondRun
  /\ sync.pc = "done"
  /\ sync.before # sync.initial
  /\ tree = sync.before
  /\ TsconfigPathOf("b") \in DOMAIN tree
  /\ TsconfigPathOf("b") \in DOMAIN sync.initial
  /\ Len(tree[TsconfigPathOf("b")].references)
       > Len(sync.initial[TsconfigPathOf("b")].references)
  /\ tree[RootTsconfigPath].references # sync.initial[RootTsconfigPath].references


\* the two path mappings of a dependency point into the given directory
MapsInto(name, t, directory) ==
  /\ HasMapping(PathsAfter(name), <<t>>,
                PathBetween(RootOf(name), directory) \o <<"index.ts">>)
  /\ HasMapping(PathsAfter(name), <<t, "*">>,
                PathBetween(RootOf(name), directory) \o <<"*">>)

\* C29: in the tsc syncGenerator the path mappings of a dependency point
\* into its source root chosen by priority: its sourceRoot when set, else
\* the rootDir of its tsconfig when set, else <root>/src when that exists,
\* else its root
C29_SourceRootByPriority ==
  (sync.pc = "done" /\ sync.variant = "tsc") =>
    \A name \in Dependents : \A t \in FirstPartyTargets(name) :
      MapsInto(name, t, SourceRootOf(t))


(***************************************************************************)
(* Tsc plugin: the defaults of the options                                 *)
(***************************************************************************)

OptionsLoaded == tscRun.pc # "start" /\ tscRun.options.given

IsFalse(option) == option.kind = "boolean" /\ ~option.value
BuildAsked(option) == option.kind = "object" \/ (option.kind = "boolean" /\ option.value)

Normalized == normalizePluginOptions(tscRun.options)

\* the targets of a project under the options of the run
TargetsOfRun == buildTscTargets("packages/a/tsconfig.json", "packages/a", Normalized)

\* C30: whatever the shape of the options, typecheck is enabled unless it
\* is false, with the name typecheck when none is given; build is enabled
\* when it is true or an object, with the name build and the config
\* tsconfig.lib.json when none is given; so with both enabled and no names
\* given a project gets the two targets typecheck and build
C30_OneSetOfDefaults ==
  OptionsLoaded =>
    /\ Normalized.typecheck.enabled <=> ~IsFalse(tscRun.options.typecheck)
    /\ Normalized.typecheck.enabled =>
         Normalized.typecheck.targetName
           = Coalesce(tscRun.options.typecheck.targetName, "typecheck")
    /\ Normalized.build.enabled <=> BuildAsked(tscRun.options.build)
    /\ Normalized.build.enabled =>
         /\ Normalized.build.targetName
              = Coalesce(tscRun.options.build.targetName, "build")
         /\ Normalized.build.configName
              = Coalesce(tscRun.options.build.configName, "tsconfig.lib.json")
    /\ (/\ Normalized.typecheck.enabled /\ Normalized.build.enabled
        /\ tscRun.options.typecheck.targetName = Undefined
        /\ tscRun.options.build.targetName = Undefined)
         => DOMAIN TargetsOfRun = {"typecheck", "build"}

====
